---------------------------- MODULE Spec2Model ----------------------------
(***************************************************************************)
(* odra-cli: schema-driven marshalling of contract entry point arguments.  *)
(*                                                                         *)
(*   src/src/types.rs   leaf codec  (into_bytes, from_bytes, ...)          *)
(*   src/src/args.rs    flattener   (flat_arg, entry_point_args),          *)
(*                      composer    (compose, ComposedArg, build_complex_arg)*)
(*                                                                         *)
(* Text (a Rust &str / String) is a sequence of one-character strings, a   *)
(* byte buffer is a sequence of 0..255.  A fallible call yields Ok(v),     *)
(* Err(e) (an Error value returned to the caller) or Panic(m) (the thread  *)
(* unwinds: expect(), unwrap(), unreachable!(), an index out of bounds).   *)
(***************************************************************************)
EXTENDS Integers, Sequences, FiniteSets, TLC

(***************************************************************************)
(* Bounds of the model.                                                    *)
(***************************************************************************)
\* the most occurrences of one flag on a command line
MaxVals == 2
\* the most bytes that follow an encoding in a decode buffer
MaxExtra == 1

(***************************************************************************)
(* Results.                                                                *)
(***************************************************************************)
Ok(v) == [tag |-> "Ok", val |-> v]
Err(e) == [tag |-> "Err", err |-> e]
Panic(m) == [tag |-> "Panic", msg |-> m]
IsOk(r) == r.tag = "Ok"

(***************************************************************************)
(* Text.                                                                   *)
(***************************************************************************)
\* the printable ASCII characters, code points 32..126 in order (GRAVE stands
\* for the backquote, code point 96)
Printable ==
  << " ", "!", "\"", "#", "$", "%", "&", "'", "(", ")", "*", "+", ",", "-", ".", "/",
     "0", "1", "2", "3", "4", "5", "6", "7", "8", "9", ":", ";", "<", "=", ">", "?",
     "@", "A", "B", "C", "D", "E", "F", "G", "H", "I", "J", "K", "L", "M", "N", "O",
     "P", "Q", "R", "S", "T", "U", "V", "W", "X", "Y", "Z", "[", "\\", "]", "^", "_",
     "GRAVE", "a", "b", "c", "d", "e", "f", "g", "h", "i", "j", "k", "l", "m", "n", "o",
     "p", "q", "r", "s", "t", "u", "v", "w", "x", "y", "z", "{", "|", "}", "~" >>

\* the UTF-8 encoding of a printable ASCII character is its code point
CharCode(c) == 31 + (CHOOSE i \in 1..Len(Printable) : Printable[i] = c)

\* char::to_lowercase on ASCII
LowerChar(c) ==
  LET n == CharCode(c) IN IF n >= 65 /\ n <= 90 THEN Printable[n + 32 - 31] ELSE c

\* str::to_lowercase
to_lowercase(s) == [i \in 1..Len(s) |-> LowerChar(s[i])]

\* str::starts_with
starts_with(s, p) == Len(s) >= Len(p) /\ SubSeq(s, 1, Len(p)) = p

\* str::strip_prefix, for a text that starts with p
strip_prefix(s, p) == SubSeq(s, Len(p) + 1, Len(s))

RECURSIVE split(_, _)
\* str::split on a one-character pattern: "" gives <<"">>, "a," gives <<"a", "">>
split(s, c) ==
  IF \A i \in 1..Len(s) : s[i] # c
  THEN << s >>
  ELSE LET i == CHOOSE j \in 1..Len(s) : s[j] = c /\ \A h \in 1..(j - 1) : s[h] # c
       IN << SubSeq(s, 1, i - 1) >> \o split(SubSeq(s, i + 1, Len(s)), c)

RECURSIVE concat(_)
\* [[T]]::concat, Iterator::flatten over a sequence of sequences
concat(ss) ==
  IF ss = << >> THEN << >>
  ELSE IF Len(ss) = 1 THEN ss[1]
  ELSE concat(SubSeq(ss, 1, Len(ss) \div 2)) \o concat(SubSeq(ss, Len(ss) \div 2 + 1, Len(ss)))

RECURSIVE join(_, _)
\* the texts of ss separated by sep
join(ss, sep) ==
  IF ss = << >> THEN << >>
  ELSE IF Len(ss) = 1 THEN ss[1]
  ELSE ss[1] \o sep \o join(Tail(ss), sep)

IsDigit(c) == c \in {"0", "1", "2", "3", "4", "5", "6", "7", "8", "9"}
DigitVal(c) == CharCode(c) - 48

(***************************************************************************)
(* Fixed-width little-endian integers as byte sequences (bytesrepr).       *)
(***************************************************************************)
Zeros(w) == [i \in 1..w |-> 0]

RECURSIVE MulAdd(_, _, _)
\* b * m + carry on a little-endian magnitude, with the carry out
MulAdd(b, m, carry) ==
  IF b = << >> THEN [bytes |-> << >>, carry |-> carry]
  ELSE LET v == Head(b) * m + carry
           r == MulAdd(Tail(b), m, v \div 256)
       IN [bytes |-> << v % 256 >> \o r.bytes, carry |-> r.carry]

RECURSIVE ParseDigits(_, _)
\* the digits of s accumulated into acc; "overflow" or "invalid" when that fails
ParseDigits(s, acc) ==
  IF s = << >> THEN Ok(acc)
  ELSE IF ~IsDigit(Head(s)) THEN Err("invalid")
  ELSE LET r == MulAdd(acc, 10, DigitVal(Head(s)))
       IN IF r.carry # 0 THEN Err("overflow") ELSE ParseDigits(Tail(s), r.bytes)

\* two's complement negation
Negate(b) == MulAdd([i \in 1..Len(b) |-> 255 - b[i]], 1, 1).bytes

IsZero(b) == \A i \in 1..Len(b) : b[i] = 0

RECURSIVE DivMod10(_, _)
\* a little-endian magnitude divided by ten, from the most significant byte down
DivMod10(b, rem) ==
  IF b = << >> THEN [bytes |-> << >>, rem |-> rem]
  ELSE LET v == rem * 256 + b[Len(b)]
           r == DivMod10(SubSeq(b, 1, Len(b) - 1), v % 10)
       IN [bytes |-> r.bytes \o << v \div 10 >>, rem |-> r.rem]

RECURSIVE DecDigits(_)
DecDigits(b) ==
  IF IsZero(b) THEN << >>
  ELSE LET r == DivMod10(b, 0) IN DecDigits(r.bytes) \o << Printable[r.rem + 48 - 31] >>

\* Display of an unsigned integer
UnsignedToString(b) == IF IsZero(b) THEN << "0" >> ELSE DecDigits(b)

\* Display of a two's complement integer
\* a rendering that reads the sign bit as part of the magnitude
SignedToString_unsigned(b) == UnsignedToString(b)

SignedToString(b) ==
  IF b # << >> /\ b[Len(b)] >= 128
  THEN << "-" >> \o UnsignedToString(Negate(b))
  ELSE UnsignedToString(b)

\* <u8|u32|u64 as FromStr>::from_str: an optional '+', then at least one digit
ParseUnsigned(s, w) ==
  LET d == IF s # << >> /\ Head(s) = "+" THEN Tail(s) ELSE s
  IN IF d = << >> THEN Err("empty") ELSE ParseDigits(d, Zeros(w))

\* <i32|i64 as FromStr>::from_str: an optional sign, then at least one digit
ParseSigned(s, w) ==
  LET neg == s # << >> /\ Head(s) = "-"
      d == IF s # << >> /\ Head(s) \in {"+", "-"} THEN Tail(s) ELSE s
      m == IF d = << >> THEN Err("empty") ELSE ParseDigits(d, Zeros(w))
  IN IF ~IsOk(m) THEN m
     ELSE IF ~neg
     THEN IF m.val[w] >= 128 THEN Err("overflow") ELSE m
     ELSE IF m.val[w] >= 128 /\ m.val # Zeros(w - 1) \o << 128 >>
     THEN Err("overflow")
     ELSE Ok(Negate(m.val))

\* u32::to_bytes of a small count
U32Bytes(n) == << n % 256, (n \div 256) % 256, (n \div 65536) % 256, 0 >>

\* u32::from_bytes of a count that fits the model's integers
U32Value(b) == b[1] + 256 * b[2] + 65536 * b[3]

\* a magnitude without its most significant zero bytes
Trim(b) ==
  IF IsZero(b) THEN << >>
  ELSE SubSeq(b, 1, CHOOSE n \in 1..Len(b) : b[n] # 0 /\ \A i \in (n + 1)..Len(b) : b[i] = 0)

\* the bytes in which the digits of s are accumulated for a kind of at most w
\* bytes: two decimal digits fit one byte, so that more bytes are needed
\* only to tell an overflow
DigitsWidth(s, w) ==
  IF Len(s) = 0 THEN 1 ELSE IF (Len(s) + 1) \div 2 < w THEN (Len(s) + 1) \div 2 ELSE w


(***************************************************************************)
(* NamedCLType.  URef and PublicKey, whose text and byte forms are wholly  *)
(* those of casper_types, are left out; of a Key only the decoding of a    *)
(* hash key, the one kind of key in the payloads here, is modelled.        *)
(***************************************************************************)
Bool == [k |-> "Bool"]
I32 == [k |-> "I32"]
I64 == [k |-> "I64"]
U8 == [k |-> "U8"]
U32 == [k |-> "U32"]
U64 == [k |-> "U64"]
U128 == [k |-> "U128"]
U256 == [k |-> "U256"]
U512 == [k |-> "U512"]
String == [k |-> "String"]
Key == [k |-> "Key"]
Unit == [k |-> "Unit"]
Option(t) == [k |-> "Option", ty |-> t]
List(t) == [k |-> "List", ty |-> t]
ByteArray(n) == [k |-> "ByteArray", n |-> n]
Result(t, e) == [k |-> "Result", ok |-> t, err |-> e]
Map(kt, vt) == [k |-> "Map", key |-> kt, value |-> vt]
Tuple1(a) == [k |-> "Tuple1", tys |-> << a >>]
Tuple2(a, b) == [k |-> "Tuple2", tys |-> << a, b >>]
Tuple3(a, b, c) == [k |-> "Tuple3", tys |-> << a, b, c >>]
Custom(name) == [k |-> "Custom", name |-> name]

\* bytesrepr tags
OPTION_NONE_TAG == 0
OPTION_SOME_TAG == 1
RESULT_ERR_TAG == 0
RESULT_OK_TAG == 1

\* the width in bytes of a fixed-width integer kind, the most bytes of a big one
Width(ty) ==
  CASE ty.k = "U8" -> 1
    [] ty.k \in {"I32", "U32"} -> 4
    [] ty.k \in {"I64", "U64"} -> 8
    [] ty.k = "U128" -> 16
    [] ty.k = "U256" -> 32
    [] ty.k = "U512" -> 64

HexDigits == << "0", "1", "2", "3", "4", "5", "6", "7", "8", "9", "a", "b", "c", "d", "e", "f" >>

\* the value of a hex digit of either case, -1 for any other character
HexVal(c) ==
  IF \E i \in 1..16 : HexDigits[i] = LowerChar(c)
  THEN (CHOOSE i \in 1..16 : HexDigits[i] = LowerChar(c)) - 1
  ELSE -1

\* hex::decode: an even number of hex digits
hex_decode(data) ==
  IF Len(data) % 2 # 0 \/ \E i \in 1..Len(data) : HexVal(data[i]) < 0
  THEN Err("FromHexError")
  ELSE Ok([i \in 1..(Len(data) \div 2) |-> 16 * HexVal(data[2 * i - 1]) + HexVal(data[2 * i])])

\* types.rs parse_hex
parse_hex(input) ==
  IF starts_with(input, << "0", "x" >>)
  THEN LET r == hex_decode(strip_prefix(input, << "0", "x" >>))
       IN IF IsOk(r) THEN r ELSE Err("HexDecodeError")
  ELSE Err("InvalidHexString")

\* types.rs validate_byte_array_size
validate_byte_array_size(expected, actual) ==
  IF actual # expected THEN Err("Formatting") ELSE Ok(<< >>)

RECURSIVE collect(_)
\* Iterator::collect::<Result<Vec<_>, _>>() and a run of `?`: the results in
\* order up to the first that is not Ok
collect(rs) ==
  IF rs = << >> THEN Ok(<< >>)
  ELSE IF ~IsOk(Head(rs)) THEN Head(rs)
  ELSE LET rest == collect(Tail(rs))
       IN IF IsOk(rest) THEN Ok(<< Head(rs).val >> \o rest.val) ELSE rest

\* the byte buffers of a collected run, one after the other
extend_all(r) == IF IsOk(r) THEN Ok(concat(r.val)) ELSE r

\* a count, then the buffers of a collected run
with_count(n, r) == IF IsOk(r) THEN Ok(U32Bytes(n) \o concat(r.val)) ELSE r

\* map_err on an Err, leaving Ok and Panic alone
map_err(r, e) == IF r.tag = "Err" THEN Err(e) ELSE r

RECURSIVE into_bytes(_, _)
\* types.rs into_bytes
into_bytes(ty, input) ==
  CASE ty.k = "Bool" ->
         IF input = << "t", "r", "u", "e" >> THEN Ok(<< 1 >>)
         ELSE IF input = << "f", "a", "l", "s", "e" >> THEN Ok(<< 0 >>)
         ELSE Err("ParseError")
    [] ty.k \in {"I32", "I64"} -> map_err(ParseSigned(input, Width(ty)), "ParseError")
    [] ty.k \in {"U8", "U32", "U64"} -> map_err(ParseUnsigned(input, Width(ty)), "ParseError")
    [] ty.k \in {"U128", "U256", "U512"} ->
         LET r == ParseDigits(input, Zeros(DigitsWidth(input, Width(ty))))
         IN IF IsOk(r) THEN Ok(<< Len(Trim(r.val)) >> \o Trim(r.val)) ELSE Err("BigUintError")
    [] ty.k = "String" -> Ok(U32Bytes(Len(input)) \o [i \in 1..Len(input) |-> CharCode(input[i])])
    [] ty.k = "Option" ->
         IF input = << "n", "o", "n", "e" >> THEN Ok(<< OPTION_NONE_TAG >>)
         ELSE IF starts_with(input, << "s", "o", "m", "e", ":" >>)
         THEN extend_all(collect(<< Ok(<< OPTION_SOME_TAG >>),
                into_bytes(ty.ty, strip_prefix(input, << "s", "o", "m", "e", ":" >>)) >>))
         ELSE Err("Formatting")
    [] ty.k = "Result" ->
         IF starts_with(input, << "e", "r", "r", ":" >>)
         THEN extend_all(collect(<< Ok(<< RESULT_ERR_TAG >>),
                into_bytes(ty.err, strip_prefix(input, << "e", "r", "r", ":" >>)) >>))
         ELSE IF starts_with(input, << "o", "k", ":" >>)
         THEN extend_all(collect(<< Ok(<< RESULT_OK_TAG >>),
                into_bytes(ty.ok, strip_prefix(input, << "o", "k", ":" >>)) >>))
         ELSE Err("Formatting")
    [] ty.k = "Tuple1" -> into_bytes(ty.tys[1], input)
    [] ty.k \in {"Tuple2", "Tuple3"} ->
         LET parts == split(input, ",")
         IN IF Len(parts) # Len(ty.tys) THEN Err("Formatting")
            ELSE extend_all(collect([i \in 1..Len(parts) |-> into_bytes(ty.tys[i], parts[i])]))
    [] ty.k = "Unit" -> Ok(<< >>)
    [] ty.k = "Map" ->
         LET parts == [i \in 1..Len(split(input, ",")) |-> split(split(input, ",")[i], ":")]
         IN IF \E i \in 1..Len(parts) : Len(parts[i]) # 2 THEN Err("Formatting")
            ELSE with_count(Len(parts),
                   collect(concat([i \in 1..Len(parts) |->
                     << into_bytes(ty.key, parts[i][1]), into_bytes(ty.value, parts[i][2]) >>])))
    [] ty.k = "List" ->
         LET parts == split(input, ",")
         IN with_count(Len(parts), collect([i \in 1..Len(parts) |-> into_bytes(ty.ty, parts[i])]))
    [] ty.k = "ByteArray" ->
         LET hex == parse_hex(input)
             parts == split(input, ",")
         IN IF IsOk(hex)
            THEN IF IsOk(validate_byte_array_size(ty.n, Len(hex.val))) THEN hex
                 ELSE validate_byte_array_size(ty.n, Len(hex.val))
            ELSE IF hex.err = "InvalidHexString"
            THEN IF ~IsOk(validate_byte_array_size(ty.n, Len(parts)))
                 THEN validate_byte_array_size(ty.n, Len(parts))
                 ELSE IF \A i \in 1..Len(parts) : starts_with(parts[i], << "0", "x" >>)
                 THEN extend_all(collect([i \in 1..Len(parts) |-> parse_hex(input)]))
                 ELSE map_err(extend_all(collect([i \in 1..Len(parts) |-> ParseUnsigned(parts[i], 1)])),
                              "Formatting")
            ELSE hex
    [] ty.k = "Custom" -> Panic("should not be here")

\* types.rs vec_into_bytes
vec_into_bytes(ty, input) ==
  with_count(Len(input), collect([i \in 1..Len(input) |-> into_bytes(ty, input[i])]))

(***************************************************************************)
(* Decoding.  A decoded value is [text, rem]: the rendered text and the    *)
(* bytes left over.                                                        *)
(***************************************************************************)
Decoded(text, rem) == [text |-> text, rem |-> rem]

Drop(b, n) == SubSeq(b, n + 1, Len(b))

\* the value of a u32 count, 65536 standing for every count that is larger
\* than any buffer of the model
CountOf(b) == IF b[3] # 0 \/ b[4] # 0 THEN 65536 ELSE b[1] + 256 * b[2]

\* the character of a code point; bytes outside printable ASCII are not valid
\* text here (control characters and multi-byte sequences are left out)
CodeChar(n) == Printable[n - 31]

\* format!("{:02x}", b)
Hex02(b) == << HexDigits[(b \div 16) + 1], HexDigits[(b % 16) + 1] >>

\* <T as FromBytes>::from_bytes and Display, for the primitive kinds
prim_from_bytes(ty, input) ==
  CASE ty.k = "Bool" ->
         IF input = << >> \/ input[1] > 1 THEN Err("bytesrepr")
         ELSE Ok(Decoded(IF input[1] = 1 THEN << "t", "r", "u", "e" >>
                         ELSE << "f", "a", "l", "s", "e" >>, Drop(input, 1)))
    [] ty.k \in {"I32", "I64"} ->
         IF Len(input) < Width(ty) THEN Err("bytesrepr")
         ELSE Ok(Decoded(SignedToString(SubSeq(input, 1, Width(ty))), Drop(input, Width(ty))))
    [] ty.k \in {"U8", "U32", "U64"} ->
         IF Len(input) < Width(ty) THEN Err("bytesrepr")
         ELSE Ok(Decoded(UnsignedToString(SubSeq(input, 1, Width(ty))), Drop(input, Width(ty))))
    [] ty.k \in {"U128", "U256", "U512"} ->
         IF input = << >> \/ input[1] > Width(ty) \/ Len(input) < 1 + input[1]
         THEN Err("bytesrepr")
         ELSE Ok(Decoded(UnsignedToString(SubSeq(input, 2, 1 + input[1])), Drop(input, 1 + input[1])))
    [] ty.k = "String" ->
         IF Len(input) < 4 \/ Len(input) - 4 < CountOf(input) THEN Err("bytesrepr")
         ELSE IF \E i \in 5..(4 + CountOf(input)) : input[i] < 32 \/ input[i] > 126
         THEN Err("bytesrepr")
         ELSE Ok(Decoded([i \in 1..CountOf(input) |-> CodeChar(input[4 + i])],
                         Drop(input, 4 + CountOf(input))))
    [] ty.k = "Key" ->
         IF input = << >> THEN Err("bytesrepr")
         ELSE CASE input[1] = 1 ->
                IF Len(input) < 33 THEN Err("bytesrepr")
                ELSE Ok(Decoded(<< "K", "e", "y", ":", ":", "H", "a", "s", "h", "(" >>
                                  \o concat([i \in 1..32 |-> Hex02(input[i + 1])]) \o << ")" >>,
                                Drop(input, 33)))

\* types.rs _from_bytes::<u8>
u8_from_bytes(input) ==
  IF input = << >> THEN Err("DeserializationError") ELSE Ok(Decoded(input[1], Drop(input, 1)))

\* types.rs _from_bytes::<u32>
u32_from_bytes(input) ==
  IF Len(input) < 4 THEN Err("DeserializationError")
  ELSE Ok(Decoded(CountOf(input), Drop(input, 4)))

RECURSIVE from_bytes(_, _)
RECURSIVE from_bytes_seq(_, _)
RECURSIVE from_bytes_loop(_, _, _)

\* the slots of a tuple, or the key and value of a map entry, decoded one
\* after the other from one buffer: the texts in order and the bytes left
from_bytes_seq(tys, input) ==
  IF tys = << >> THEN Ok([texts |-> << >>, rem |-> input])
  ELSE LET r == from_bytes(Head(tys), input)
       IN IF ~IsOk(r) THEN r
          ELSE LET rest == from_bytes_seq(Tail(tys), r.val.rem)
               IN IF ~IsOk(rest) THEN rest
                  ELSE Ok([texts |-> << r.val.text >> \o rest.val.texts, rem |-> rest.val.rem])

\* for _ in 0..num_keys { ... }: n rounds, each decoding the types tys
from_bytes_loop(tys, n, stream) ==
  IF n = 0 THEN Ok([texts |-> << >>, rem |-> stream])
  ELSE LET r == from_bytes_seq(tys, stream)
       IN IF ~IsOk(r) THEN r
          ELSE LET rest == from_bytes_loop(tys, n - 1, r.val.rem)
               IN IF ~IsOk(rest) THEN rest
                  ELSE Ok([texts |-> << r.val.texts >> \o rest.val.texts, rem |-> rest.val.rem])

\* types.rs from_bytes
from_bytes(ty, input) ==
  CASE ty.k \in {"Bool", "I32", "I64", "U8", "U32", "U64", "U128", "U256", "U512", "String",
                 "Key"} ->
         map_err(prim_from_bytes(ty, input), "SerializationError")
    [] ty.k = "Option" ->
         IF input # << >> /\ input[1] = OPTION_NONE_TAG
         THEN Ok(Decoded(<< "n", "u", "l", "l" >>, input))
         ELSE IF input = << >> THEN Panic("range start index 1 out of range for slice of length 0")
         ELSE from_bytes(ty.ty, Drop(input, 1))
    [] ty.k = "Result" ->
         LET v == u8_from_bytes(input)
         IN IF ~IsOk(v) THEN v
            ELSE IF v.val.text = RESULT_ERR_TAG
            THEN LET r == from_bytes(ty.err, v.val.rem)
                 IN IF ~IsOk(r) THEN r
                    ELSE Ok(Decoded(<< "E", "r", "r", "(" >> \o r.val.text \o << ")" >>, r.val.rem))
            ELSE IF v.val.text = RESULT_OK_TAG
            THEN LET r == from_bytes(ty.ok, v.val.rem)
                 IN IF ~IsOk(r) THEN r
                    ELSE Ok(Decoded(<< "O", "k", "(" >> \o r.val.text \o << ")" >>, r.val.rem))
            ELSE Err("Other")
    [] ty.k = "Tuple1" ->
         LET r == from_bytes(ty.tys[1], input)
         IN IF ~IsOk(r) THEN r
            ELSE Ok(Decoded(<< "(" >> \o r.val.text \o << ",", ")" >>, r.val.rem))
    [] ty.k \in {"Tuple2", "Tuple3"} ->
         LET r == from_bytes_seq(ty.tys, input)
         IN IF ~IsOk(r) THEN r
            ELSE Ok(Decoded(<< "(" >> \o join(r.val.texts, << ",", " " >>) \o << ")" >>, r.val.rem))
    [] ty.k = "Unit" -> Ok(Decoded(<< >>, input))
    [] ty.k = "List" ->
         LET n == u32_from_bytes(input)
         IN IF ~IsOk(n) THEN n
            ELSE LET r == from_bytes_loop(<< ty.ty >>, n.val.text, n.val.rem)
                 IN IF ~IsOk(r) THEN r
                    ELSE Ok(Decoded(join([i \in 1..Len(r.val.texts) |-> r.val.texts[i][1]], << "," >>),
                                    r.val.rem))
    [] ty.k = "ByteArray" ->
         IF Len(input) < ty.n THEN Panic("index out of bounds")
         ELSE Ok(Decoded(<< "0", "x" >> \o concat([i \in 1..ty.n |-> Hex02(input[i])]) \o << " ", "(" >>
                           \o join([i \in 1..ty.n |-> UnsignedToString(<< input[i] >>)], << ",", " " >>)
                           \o << ")" >>,
                         Drop(input, ty.n)))
    [] ty.k = "Map" ->
         LET n == u32_from_bytes(input)
         IN IF ~IsOk(n) THEN n
            ELSE LET r == from_bytes_loop(<< ty.key, ty.value >>, n.val.text, n.val.rem)
                 IN IF ~IsOk(r) THEN r
                    ELSE Ok(Decoded(join([i \in 1..Len(r.val.texts) |->
                                            r.val.texts[i][1] \o << ":" >> \o r.val.texts[i][2]],
                                         << ",", " " >>),
                                    r.val.rem))
    [] ty.k = "Custom" -> Panic("should not be here")

(***************************************************************************)
(* The schema.  An Argument is [name, ty, optional], a CustomType is       *)
(* [kind |-> "Struct", name, members] with members [name, ty] or           *)
(* [kind |-> "Enum", name, variants] with variants [name, discriminant,    *)
(* ty], a CommandArg is [name, required, ty, is_list_element].  The        *)
(* descriptions, which are copied and never read, are left out.            *)
(***************************************************************************)
Argument(name, ty, optional) == [name |-> name, ty |-> ty, optional |-> optional]

StructMember(name, ty) == [name |-> name, ty |-> ty]

EnumVariant(name, discriminant, ty) == [name |-> name, discriminant |-> discriminant, ty |-> ty]

Struct(name, members) == [kind |-> "Struct", name |-> name, members |-> members]

Enum(name, variants) == [kind |-> "Enum", name |-> name, variants |-> variants]

CommandArg(name, ty, required, is_list_element) ==
  [name |-> name, required |-> required, ty |-> ty, is_list_element |-> is_list_element]

\* format!("{}.{}", a, b)
Dotted(a, b) == a \o << "." >> \o b

\* types.iter().find(|ty| name == type_name): the registries of the model hold
\* one definition per name
find_type(types, name) ==
  IF \E t \in types : t.name = name
  THEN Ok(CHOOSE t \in types : t.name = name)
  ELSE Panic("Type not found")

\* a flat_map that yields the last member's leaves first
flat_map_last_first(rs) ==
  extend_all(collect([i \in 1..Len(rs) |-> rs[Len(rs) + 1 - i]]))

\* Iterator::flat_map over calls that may panic
flat_map(rs) == extend_all(collect(rs))

\* a child argument of a struct member that is always required
field_arg_required(arg, field) == Argument(Dotted(arg.name, field.name), field.ty, FALSE)

\* flat_arg, the child argument of a struct member
field_arg(arg, field) == Argument(Dotted(arg.name, field.name), field.ty, arg.optional)

\* a child argument of an enum variant that keeps the case of the variant's name
variant_arg_cased(arg, variant) == Argument(Dotted(arg.name, variant.name), variant.ty, arg.optional)

\* flat_arg, the child argument of an enum variant
variant_arg(arg, variant) ==
  Argument(Dotted(arg.name, to_lowercase(variant.name)), variant.ty, arg.optional)

\* flat_arg, the argument a list is flattened as: the same but for its type
inner_arg(arg) == Argument(arg.name, arg.ty.ty, arg.optional)

\* a leaf that is never marked as a list element
leaf_arg_unmarked(arg, is_list_element) == CommandArg(arg.name, arg.ty, ~arg.optional, FALSE)

\* flat_arg, the leaf of an argument that is neither a custom type nor a list
leaf_arg(arg, is_list_element) == CommandArg(arg.name, arg.ty, ~arg.optional, is_list_element)

RECURSIVE flat_arg(_, _, _)
\* args.rs flat_arg
flat_arg(arg, types, is_list_element) ==
  CASE arg.ty.k = "Custom" ->
         LET matching_type == find_type(types, arg.ty.name)
         IN IF ~IsOk(matching_type) THEN matching_type
            ELSE IF matching_type.val.kind = "Struct"
            THEN LET members == matching_type.val.members
                 IN flat_map([i \in 1..Len(members) |->
                      flat_arg(field_arg(arg, members[i]), types, is_list_element)])
            ELSE LET variants == matching_type.val.variants
                 IN flat_map([i \in 1..Len(variants) |->
                      flat_arg(variant_arg(arg, variants[i]), types, is_list_element)])
    [] arg.ty.k = "List" -> flat_arg(inner_arg(arg), types, TRUE)
    [] OTHER -> Ok(<< leaf_arg(arg, is_list_element) >>)

\* args.rs entry_point_args, before the conversion of each CommandArg into a flag
entry_point_args(entry_point, types) ==
  flat_map([i \in 1..Len(entry_point.arguments) |-> flat_arg(entry_point.arguments[i], types, FALSE)])

RECURSIVE named_cl_type_to_cl_type(_)
\* types.rs named_cl_type_to_cl_type
named_cl_type_to_cl_type(ty) ==
  CASE ty.k = "Custom" -> [k |-> "Any"]
    [] ty.k \in {"Option", "List"} -> [ty EXCEPT !.ty = named_cl_type_to_cl_type(ty.ty)]
    [] ty.k = "Result" ->
         [ty EXCEPT !.ok = named_cl_type_to_cl_type(ty.ok), !.err = named_cl_type_to_cl_type(ty.err)]
    [] ty.k = "Map" ->
         [ty EXCEPT !.key = named_cl_type_to_cl_type(ty.key), !.value = named_cl_type_to_cl_type(ty.value)]
    [] ty.k \in {"Tuple1", "Tuple2", "Tuple3"} ->
         [ty EXCEPT !.tys = [i \in 1..Len(ty.tys) |-> named_cl_type_to_cl_type(ty.tys[i])]]
    [] OTHER -> ty

\* CLValue::from_components
CLValue(cl_type, bytes) == [cl_type |-> cl_type, bytes |-> bytes]

(***************************************************************************)
(* ArgMatches.  The flags of a command are the CommandArgs it was built    *)
(* from; a set of matches gives, flag by flag, the values of the flag's    *)
(* occurrences on the command line (none when the flag was not given).     *)
(***************************************************************************)
\* ArgMatches::get_many::<String>(id): None is Ok(<< >>); an id that names no
\* flag of the command panics
get_many(flags, matches, id) ==
  IF \E i \in 1..Len(flags) : flags[i].name = id
  THEN Ok(matches[CHOOSE i \in 1..Len(flags) : flags[i].name = id])
  ELSE Panic("Mismatch between definition and access")

(***************************************************************************)
(* serde_json, as decode uses it: Value::from_str followed by              *)
(* to_string_pretty.  A value is [t, s, items, keys]: t is "str", "num",   *)
(* "lit", "arr" or "obj", s the text of a scalar, items the elements of an *)
(* array or the values of an object, keys the keys of an object.  The      *)
(* texts are over Printable and the newline.  Of the escapes of a string   *)
(* \" \\ \/ \n and \t are read, and a number is an integer of at most 19   *)
(* digits, which serde_json keeps exact: other escapes, fractions,         *)
(* exponents and longer integers occur in no text given to these           *)
(* operators.  The keys of an object keep the order of their insertion, as *)
(* test_decode expects of the rendered NameTokenMetadata.                  *)
(***************************************************************************)
JScalar(t, s) == [t |-> t, s |-> s, items |-> << >>, keys |-> << >>]
JArray(items) == [t |-> "arr", s |-> << >>, items |-> items, keys |-> << >>]
JObject(keys, items) == [t |-> "obj", s |-> << >>, items |-> items, keys |-> keys]

JNo == [ok |-> FALSE]
JYes(v, next) == [ok |-> TRUE, val |-> v, next |-> next]

IsWs(c) == c \in {" ", "\n", "\t", "\r"}

\* the index of the first character at or after i that is not white space
SkipWs(s, i) ==
  IF \E j \in i..Len(s) : ~IsWs(s[j])
  THEN CHOOSE j \in i..Len(s) : ~IsWs(s[j]) /\ \A h \in i..(j - 1) : IsWs(s[h])
  ELSE Len(s) + 1

\* the quote at j closes the string opened at i: an even number of
\* backslashes stands right before it
Closes(s, i, j) ==
  /\ s[j] = "\""
  /\ LET run == CHOOSE n \in 0..(j - i - 1) :
                  /\ \A h \in (j - n)..(j - 1) : s[h] = "\\"
                  /\ (n = j - i - 1 \/ s[j - n - 1] # "\\")
     IN run % 2 = 0

RECURSIVE Unescape(_)
\* the characters of a string's content, Err for a control character or a
\* backslash that starts no escape
Unescape(content) ==
  IF \A h \in 1..Len(content) : content[h] # "\\" /\ ~(content[h] \in {"\n", "\t", "\r"})
  THEN Ok(content)
  ELSE IF Head(content) \in {"\n", "\t", "\r"} THEN Err("control character")
  ELSE IF Head(content) # "\\"
  THEN LET rest == Unescape(Tail(content))
       IN IF IsOk(rest) THEN Ok(<< Head(content) >> \o rest.val) ELSE rest
  ELSE IF Len(content) < 2 \/ content[2] \notin {"\"", "\\", "/", "n", "t"} THEN Err("invalid escape")
  ELSE LET rest == Unescape(Tail(Tail(content)))
           c == CASE content[2] = "n" -> "\n" [] content[2] = "t" -> "\t" [] OTHER -> content[2]
       IN IF IsOk(rest) THEN Ok(<< c >> \o rest.val) ELSE rest

\* a string that starts with the quote at i
json_string(s, i) ==
  IF \E j \in (i + 1)..Len(s) : Closes(s, i, j)
  THEN LET j == CHOOSE j \in (i + 1)..Len(s) :
                  Closes(s, i, j) /\ \A h \in (i + 1)..(j - 1) : ~Closes(s, i, h)
           content == Unescape(SubSeq(s, i + 1, j - 1))
       IN IF IsOk(content) THEN JYes(JScalar("str", content.val), j + 1) ELSE JNo
  ELSE JNo

\* an integer that starts at i
json_number(s, i) ==
  LET d == IF s[i] = "-" THEN i + 1 ELSE i
      end == IF \E j \in d..Len(s) : ~IsDigit(s[j])
             THEN (CHOOSE j \in d..Len(s) : ~IsDigit(s[j]) /\ \A h \in d..(j - 1) : IsDigit(s[h])) - 1
             ELSE Len(s)
  IN IF end < d \/ (s[d] = "0" /\ end > d) \/ end - d + 1 > 19 THEN JNo
     ELSE IF end < Len(s) /\ s[end + 1] \in {".", "e", "E"} THEN JNo
     ELSE JYes(JScalar("num", SubSeq(s, i, end)), end + 1)

\* true, false or null at i
json_literal(s, i) ==
  LET Is(word) == i + Len(word) - 1 <= Len(s) /\ SubSeq(s, i, i + Len(word) - 1) = word
  IN IF Is(<< "t", "r", "u", "e" >>) THEN JYes(JScalar("lit", << "t", "r", "u", "e" >>), i + 4)
     ELSE IF Is(<< "f", "a", "l", "s", "e" >>)
     THEN JYes(JScalar("lit", << "f", "a", "l", "s", "e" >>), i + 5)
     ELSE IF Is(<< "n", "u", "l", "l" >>) THEN JYes(JScalar("lit", << "n", "u", "l", "l" >>), i + 4)
     ELSE JNo

\* an object with the key set to the value: a key already there keeps its place
json_insert(keys, items, key, value) ==
  IF \E n \in 1..Len(keys) : keys[n] = key
  THEN [keys |-> keys,
        items |-> [n \in 1..Len(items) |-> IF keys[n] = key THEN value ELSE items[n]]]
  ELSE [keys |-> Append(keys, key), items |-> Append(items, value)]

RECURSIVE json_value(_, _)
RECURSIVE json_items(_, _, _)
RECURSIVE json_members(_, _, _, _)

\* the value that starts at i, which is not white space
json_value(s, i) ==
  IF i > Len(s) THEN JNo
  ELSE CASE s[i] = "\"" -> json_string(s, i)
         [] s[i] = "[" ->
              LET j == SkipWs(s, i + 1)
              IN IF j <= Len(s) /\ s[j] = "]" THEN JYes(JArray(<< >>), j + 1)
                 ELSE json_items(s, j, << >>)
         [] s[i] = "{" ->
              LET j == SkipWs(s, i + 1)
              IN IF j <= Len(s) /\ s[j] = "}" THEN JYes(JObject(<< >>, << >>), j + 1)
                 ELSE json_members(s, j, << >>, << >>)
         [] s[i] = "-" \/ IsDigit(s[i]) -> json_number(s, i)
         [] OTHER -> json_literal(s, i)

\* the elements of an array from the one that starts at i
json_items(s, i, acc) ==
  LET v == json_value(s, i)
      j == SkipWs(s, v.next)
  IN IF ~v.ok THEN JNo
     ELSE IF j > Len(s) THEN JNo
     ELSE IF s[j] = "," THEN json_items(s, SkipWs(s, j + 1), Append(acc, v.val))
     ELSE IF s[j] = "]" THEN JYes(JArray(Append(acc, v.val)), j + 1)
     ELSE JNo

\* the members of an object from the one whose key starts at i
json_members(s, i, keys, items) ==
  LET key == IF i <= Len(s) /\ s[i] = "\"" THEN json_string(s, i) ELSE JNo
      colon == SkipWs(s, key.next)
      v == json_value(s, SkipWs(s, colon + 1))
      j == SkipWs(s, v.next)
      obj == json_insert(keys, items, key.val.s, v.val)
  IN IF ~key.ok THEN JNo
     ELSE IF colon > Len(s) \/ s[colon] # ":" THEN JNo
     ELSE IF ~v.ok THEN JNo
     ELSE IF j > Len(s) THEN JNo
     ELSE IF s[j] = "," THEN json_members(s, SkipWs(s, j + 1), obj.keys, obj.items)
     ELSE IF s[j] = "}" THEN JYes(JObject(obj.keys, obj.items), j + 1)
     ELSE JNo

\* serde_json::Value::from_str: one value and nothing but white space after it
from_str(s) ==
  LET v == json_value(s, SkipWs(s, 1))
  IN IF v.ok /\ SkipWs(s, v.next) > Len(s) THEN Ok(v.val) ELSE Err("serde_json::Error")

\* a string as serde_json writes it
json_quote(s) ==
  << "\"" >>
  \o concat([n \in 1..Len(s) |->
       CASE s[n] = "\"" -> << "\\", "\"" >>
         [] s[n] = "\\" -> << "\\", "\\" >>
         [] s[n] = "\n" -> << "\\", "n" >>
         [] s[n] = "\t" -> << "\\", "t" >>
         [] OTHER -> << s[n] >>])
  \o << "\"" >>

Indent(depth) == [n \in 1..(2 * depth) |-> " "]

RECURSIVE pretty(_, _)
\* serde_json::to_string_pretty, the value being depth levels deep
pretty(v, depth) ==
  CASE v.t = "str" -> json_quote(v.s)
    [] v.t \in {"num", "lit"} -> v.s
    [] v.t = "arr" ->
         IF v.items = << >> THEN << "[", "]" >>
         ELSE << "[", "\n" >>
              \o join([n \in 1..Len(v.items) |-> Indent(depth + 1) \o pretty(v.items[n], depth + 1)],
                      << ",", "\n" >>)
              \o << "\n" >> \o Indent(depth) \o << "]" >>
    [] v.t = "obj" ->
         IF v.keys = << >> THEN << "{", "}" >>
         ELSE << "{", "\n" >>
              \o join([n \in 1..Len(v.keys) |->
                        Indent(depth + 1) \o json_quote(v.keys[n]) \o << ":", " " >>
                        \o pretty(v.items[n], depth + 1)],
                      << ",", "\n" >>)
              \o << "\n" >> \o Indent(depth) \o << "}" >>

\* serde_json::to_string_pretty
to_string_pretty(v) == pretty(v, 0)

(***************************************************************************)
(* args.rs decode.  The result is Ok(Decoded(text, rem)), the Err of a     *)
(* leaf that from_bytes could not read, or a Panic.                        *)
(***************************************************************************)
\* String::pop
pop(s) == IF s = << >> THEN s ELSE SubSeq(s, 1, Len(s) - 1)

\* Value::from_str(&decoded).unwrap() and to_string_pretty(&json).unwrap()
render(decoded, rem) ==
  IF IsOk(from_str(decoded)) THEN Ok(Decoded(to_string_pretty(from_str(decoded).val), rem))
  ELSE Panic("called Result::unwrap() on an Err value")

\* value.parse::<u16>().unwrap() of the text of a u8
parse_u16(value) == LET b == ParseUnsigned(value, 2).val IN b[1] + 256 * b[2]

\* variants.iter().find(..).expect("Variant not found")
\* a search that stops at the first variant whatever its discriminant
find_variant_first(variants, value) == Ok(variants[1])

find_variant(variants, value) ==
  IF \E i \in 1..Len(variants) : variants[i].discriminant = value
  THEN Ok(variants[CHOOSE i \in 1..Len(variants) :
                     /\ variants[i].discriminant = value
                     /\ \A h \in 1..(i - 1) : variants[h].discriminant # value])
  ELSE Panic("Variant not found")

RECURSIVE decode(_, _, _)
RECURSIVE decode_fields(_, _, _, _)
RECURSIVE decode_elements(_, _, _, _, _)

\* decode, the loop over the members of a struct: every field is decoded
\* from where the one before it ended and written as "name": "value",
decode_fields(members, bytes, decoded, types) ==
  IF members = << >> THEN Ok(Decoded(decoded, bytes))
  ELSE LET r == decode(bytes, Head(members).ty, types)
       IN IF ~IsOk(r) THEN r
          ELSE decode_fields(Tail(members), r.val.rem,
                 decoded \o << " ", "\"" >> \o Head(members).name \o << "\"", ":", " ", "\"" >>
                         \o r.val.text \o << "\"", "," >>,
                 types)

\* decode, the loop over the elements of a list: len rounds, each writing
\* the value and a comma
decode_elements(len, bytes, ty, decoded, types) ==
  IF len = 0 THEN Ok(Decoded(decoded, bytes))
  ELSE LET r == decode(bytes, ty, types)
       IN IF ~IsOk(r) THEN r
          ELSE decode_elements(len - 1, r.val.rem, ty, decoded \o r.val.text \o << "," >>, types)

\* args.rs decode
decode(bytes, ty, types) ==
  CASE ty.k = "Custom" ->
         LET matching_type == find_type(types, ty.name)
         IN IF ~IsOk(matching_type) THEN matching_type
            ELSE IF matching_type.val.kind = "Struct"
            THEN LET r == decode_fields(matching_type.val.members, bytes, << "{", " " >>, types)
                 IN IF ~IsOk(r) THEN r
                    ELSE render(pop(r.val.text) \o << " ", "}" >>, r.val.rem)
            ELSE LET r == decode(bytes, U8, types)
                 IN IF ~IsOk(r) THEN r
                    ELSE LET variant == find_variant(matching_type.val.variants,
                                                      parse_u16(r.val.text))
                         IN IF ~IsOk(variant) THEN variant
                            ELSE Ok(Decoded(variant.val.name, r.val.rem))
    [] ty.k = "List" ->
         IF Len(bytes) < 4 THEN Panic("called Result::unwrap() on an Err value")
         ELSE LET r == decode_elements(CountOf(bytes), Drop(bytes, 4), ty.ty, << "[" >>, types)
              IN IF ~IsOk(r) THEN r
                 ELSE render(pop(r.val.text) \o << "]" >>, r.val.rem)
    [] OTHER -> from_bytes(ty, bytes)

(***************************************************************************)
(* ComposedArg.                                                            *)
(***************************************************************************)
\* ComposedArg::new
ComposedArg(name) == [name |-> name, values |-> << >>]

\* ComposedArg::add
add(group, value) == [group EXCEPT !.values = Append(group.values, value)]

\* a flush that writes column after column: every value of the first field,
\* then every value of the second
flush_order_by_column(size, columns) ==
  [n \in 1..(size * columns) |-> << ((n - 1) % size) + 1, ((n - 1) \div size) + 1 >>]

\* the (i, column) pairs in the order in which flush visits them
flush_order(size, columns) ==
  [n \in 1..(size * columns) |-> << ((n - 1) \div columns) + 1, ((n - 1) % columns) + 1 >>]

\* ComposedArg::flush, the bytes it appends: nothing for an empty group
flush(group) ==
  IF group.values = << >> THEN Ok(<< >>)
  ELSE LET size == Len(group.values[1][2])
           order == flush_order(size, Len(group.values))
       IN with_count(size,
            collect([n \in 1..Len(order) |->
              LET i == order[n][1]
                  column == group.values[order[n][2]]
              IN IF i > Len(column[2]) THEN Panic("index out of bounds")
                 ELSE into_bytes(column[1], column[2][i])]))

(***************************************************************************)
(* The contracts the command line is built for: their custom types and     *)
(* entry points (SchemaCustomTypes, SchemaEntrypoints).  The first follows *)
(* the PaymentVoucher of the tests of args.rs.                             *)
(***************************************************************************)
s_voucher == << "v", "o", "u", "c", "h", "e", "r" >>
s_payment == << "p", "a", "y", "m", "e", "n", "t" >>
s_payment_id == << "p", "a", "y", "m", "e", "n", "t", "_", "i", "d" >>
s_amount == << "a", "m", "o", "u", "n", "t" >>
s_names == << "n", "a", "m", "e", "s" >>
s_label == << "l", "a", "b", "e", "l" >>
s_token_expiration == << "t", "o", "k", "e", "n", "_", "e", "x", "p", "i", "r", "a", "t", "i", "o", "n" >>
s_voucher_expiration == << "v", "o", "u", "c", "h", "e", "r", "_", "e", "x", "p", "i", "r", "a", "t", "i", "o", "n" >>
s_signature == << "s", "i", "g", "n", "a", "t", "u", "r", "e" >>
s_PaymentVoucher == << "P", "a", "y", "m", "e", "n", "t", "V", "o", "u", "c", "h", "e", "r" >>
s_PaymentInfo == << "P", "a", "y", "m", "e", "n", "t", "I", "n", "f", "o" >>
s_NameMintInfo == << "N", "a", "m", "e", "M", "i", "n", "t", "I", "n", "f", "o" >>
s_NameTokenMetadata ==
  << "N", "a", "m", "e", "T", "o", "k", "e", "n", "M", "e", "t", "a", "d", "a", "t", "a" >>
s_token_hash == << "t", "o", "k", "e", "n", "_", "h", "a", "s", "h" >>
s_expiration == << "e", "x", "p", "i", "r", "a", "t", "i", "o", "n" >>
s_resolver == << "r", "e", "s", "o", "l", "v", "e", "r" >>
s_Kind == << "K", "i", "n", "d" >>
s_Open == << "O", "p", "e", "n" >>
s_Sealed == << "S", "e", "a", "l", "e", "d" >>
s_Seal == << "S", "e", "a", "l" >>
s_by == << "b", "y" >>
s_enabled == << "e", "n", "a", "b", "l", "e", "d" >>
s_limit == << "l", "i", "m", "i", "t" >>
s_kind == << "k", "i", "n", "d" >>
s_items == << "i", "t", "e", "m", "s" >>
s_memo == << "m", "e", "m", "o" >>
s_grid == << "g", "r", "i", "d" >>
s_Missing == << "M", "i", "s", "s", "i", "n", "g" >>
s_who == << "w", "h", "o" >>
s_mint == << "m", "i", "n", "t" >>
s_configure == << "c", "o", "n", "f", "i", "g", "u", "r", "e" >>
s_batch == << "b", "a", "t", "c", "h" >>
s_lookup == << "l", "o", "o", "k", "u", "p" >>
s_open == << "o", "p", "e", "n" >>
s_sealed == << "s", "e", "a", "l", "e", "d" >>
s_init == << "i", "n", "i", "t" >>

Entrypoint(name, arguments) == [name |-> name, arguments |-> arguments]

VoucherTypes ==
  { Struct(s_PaymentVoucher,
           << StructMember(s_payment, Custom(s_PaymentInfo)),
              StructMember(s_names, List(Custom(s_NameMintInfo))),
              StructMember(s_voucher_expiration, U64) >>),
    Struct(s_PaymentInfo,
           << StructMember(s_payment_id, String), StructMember(s_amount, U512) >>),
    Struct(s_NameMintInfo,
           << StructMember(s_label, String), StructMember(s_token_expiration, U64) >>),
    Enum(s_Kind,
         << EnumVariant(s_Open, 0, Unit), EnumVariant(s_Sealed, 1, Custom(s_Seal)) >>),
    Struct(s_Seal, << StructMember(s_by, U8) >>) }

VoucherEntrypoints ==
  << Entrypoint(s_init, << Argument(s_limit, U8, FALSE) >>),
     Entrypoint(s_mint,
                << Argument(s_voucher, Custom(s_PaymentVoucher), FALSE),
                   Argument(s_signature, List(U8), FALSE) >>),
     Entrypoint(s_configure,
                << Argument(s_enabled, Bool, TRUE),
                   Argument(s_limit, Option(U8), FALSE),
                   Argument(s_kind, Custom(s_Kind), TRUE) >>),
     Entrypoint(s_batch,
                << Argument(s_items, List(Custom(s_NameMintInfo)), FALSE),
                   Argument(s_memo, String, TRUE),
                   Argument(s_grid, List(List(U8)), TRUE) >>) >>

\* a contract whose schema names a type that its custom types do not define
DanglingTypes == { Struct(s_Seal, << StructMember(s_by, U8) >>) }

DanglingEntrypoints ==
  << Entrypoint(s_lookup,
                << Argument(s_limit, U8, FALSE), Argument(s_who, Custom(s_Missing), FALSE) >>) >>

Contracts ==
  { [types |-> VoucherTypes, entrypoints |-> VoucherEntrypoints],
    [types |-> DanglingTypes, entrypoints |-> DanglingEntrypoints] }

(***************************************************************************)
(* The command line.  Every flag takes its values from the sample texts of *)
(* its type: a flag with action Set occurs at most once, a flag with       *)
(* action Append up to MaxVals times, or once with two items separated by  *)
(* a comma.  Whether a flag is required is not enforced here: compose is   *)
(* also run on matches in which a required flag is absent, as a caller     *)
(* that assembles its own Command (test_compose) can produce them.         *)
(***************************************************************************)
RECURSIVE Sample(_, _)
\* the i-th sample text of a type, i in 1..9
Sample(ty, i) ==
  CASE ty.k \in {"I32", "I64", "U8", "U32", "U64", "U128", "U256", "U512"} -> << Printable[i + 48 - 31] >>
    [] ty.k = "Bool" -> IF i % 2 = 1 THEN << "t", "r", "u", "e" >> ELSE << "f", "a", "l", "s", "e" >>
    [] ty.k = "String" -> [j \in 1..i |-> Printable[i + 97 - 31]]
    [] ty.k = "Option" ->
         IF i % 2 = 1 THEN << "s", "o", "m", "e", ":" >> \o Sample(ty.ty, i) ELSE << "n", "o", "n", "e" >>
    [] OTHER -> << >>

\* the values a command line can give one flag
ValueChoices(flag) ==
  IF flag.is_list_element
  THEN { [i \in 1..n |-> Sample(flag.ty, i)] : n \in 0..MaxVals }
       \cup { << Sample(flag.ty, 1) \o << "," >> \o Sample(flag.ty, 2) >> }
  ELSE { << >>, << Sample(flag.ty, 1) >> }

RECURSIVE MatchSets(_)
\* every set of matches of a command with these flags
MatchSets(flags) ==
  IF flags = << >> THEN { << >> }
  ELSE { << v >> \o rest : v \in ValueChoices(Head(flags)), rest \in MatchSets(Tail(flags)) }

\* clap's own validation of a command line: every required flag is present
ClapAccepts(flags, m) == \A i \in 1..Len(flags) : flags[i].required => m[i] # << >>

(***************************************************************************)
(* State.                                                                  *)
(***************************************************************************)
VARIABLES
  custom_types,   \* OdraCli.custom_types
  entrypoints,    \* the entry points of the contract (schema_entrypoints)
  commands,       \* per entry point, the flags of its subcommand
  entry_point,    \* compose: the entry point called
  flags,          \* the flags of the subcommand that produced the matches
  matches,        \* compose: args, the values of each flag
  pc,             \* where the run is
  arg_idx,        \* compose: the index of the argument at hand
  runtime_args,   \* compose: the RuntimeArgs built so far
  parts,          \* build_complex_arg: args, the leaves of the argument
  leaf_idx,       \* build_complex_arg: the index of the leaf at hand
  current_group,  \* build_complex_arg: the group being collected
  buffer,         \* build_complex_arg: the payload written so far
  outcome,        \* how the run ended: Ok(runtime args), Err(e) or Panic(m)
  codec           \* a leaf codec call: [pc, ty, input, extra, encoded, decoded]

cliVars == << custom_types, entrypoints, commands >>
callVars == << entry_point, flags, matches >>
buildVars == << parts, leaf_idx, current_group, buffer >>
vars == << custom_types, entrypoints, commands, entry_point, flags, matches, pc, arg_idx,
           runtime_args, parts, leaf_idx, current_group, buffer, outcome, codec >>

NoCall == [pc |-> "idle"]

InitCli(contract) ==
  /\ custom_types = contract.types
  /\ entrypoints = contract.entrypoints
  /\ commands = << >>
  /\ entry_point = Entrypoint(<< >>, << >>)
  /\ flags = << >>
  /\ matches = << >>
  /\ pc = "new"
  /\ arg_idx = 1
  /\ runtime_args = << >>
  /\ parts = << >>
  /\ leaf_idx = 1
  /\ current_group = ComposedArg(<< >>)
  /\ buffer = << >>
  /\ outcome = NoCall

Init == (\E contract \in Contracts : InitCli(contract)) /\ codec = NoCall

\* the run ends in r, an Err or a Panic
Fail(r) ==
  /\ pc' = "failed"
  /\ outcome' = r

\* lib.rs OdraCli::contract, the subcommands: one per entry point but "init",
\* with the flags of entry_point_args
RegisterFlags ==
  /\ pc = "new"
  /\ LET rs == [i \in 1..Len(entrypoints) |->
                 IF entrypoints[i].name = s_init THEN Ok(<< >>)
                 ELSE entry_point_args(entrypoints[i], custom_types)]
     IN IF IsOk(collect(rs))
        THEN /\ commands' = collect(rs).val
             /\ pc' = "ready"
             /\ UNCHANGED outcome
        ELSE /\ Fail(collect(rs))
             /\ UNCHANGED commands
  /\ UNCHANGED << custom_types, entrypoints, callVars, arg_idx, runtime_args, buildVars, codec >>

\* lib.rs OdraCli::run down to CallCmd::run: the command line names an entry
\* point and gives its flags values; args.rs compose starts
GetMatches(i, m) ==
  /\ pc = "ready"
  /\ entrypoints[i].name # s_init
  /\ entry_point' = entrypoints[i]
  /\ flags' = commands[i]
  /\ matches' = m
  /\ arg_idx' = 1
  /\ runtime_args' = << >>
  /\ pc' = "compose"
  /\ UNCHANGED << cliVars, buildVars, outcome, codec >>

\* a list whose items are the supplied strings, a comma in none of them split at
whole_strings(input) == input

\* args.rs compose, the items of a list: every supplied string split at its
\* commas, all the pieces in one list
comma_separated(input) == concat([i \in 1..Len(input) |-> split(input[i], ",")])

\* the argument compose is at
CurrentArg == entry_point.arguments[arg_idx]

\* args.rs compose, the body of for_each for one argument: the argument with
\* one leaf is encoded at once, any other starts build_complex_arg.  compose
\* has no error to return: an encoding that fails ends the run in its error
ComposeArg ==
  /\ pc = "compose"
  /\ arg_idx <= Len(entry_point.arguments)
  /\ LET arg == CurrentArg
         leaves == flat_arg(arg, custom_types, FALSE)
         input == get_many(flags, matches, arg.name)
         bytes == IF arg.ty.k = "List"
                  THEN vec_into_bytes(arg.ty.ty, comma_separated(input.val))
                  ELSE into_bytes(arg.ty, input.val[1])
         cl_type == IF arg.ty.k = "List"
                    THEN List(named_cl_type_to_cl_type(arg.ty.ty))
                    ELSE named_cl_type_to_cl_type(arg.ty)
     IN IF ~IsOk(leaves)
        THEN Fail(leaves) /\ UNCHANGED << arg_idx, runtime_args, buildVars >>
        ELSE IF Len(leaves.val) # 1
        THEN /\ parts' = leaves.val
             /\ leaf_idx' = 1
             /\ current_group' = ComposedArg(<< >>)
             /\ buffer' = << >>
             /\ pc' = "complex"
             /\ UNCHANGED << arg_idx, runtime_args, outcome >>
        ELSE IF ~IsOk(input)
        THEN Fail(input) /\ UNCHANGED << arg_idx, runtime_args, buildVars >>
        ELSE IF input.val = << >>
        THEN /\ arg_idx' = arg_idx + 1
             /\ UNCHANGED << pc, runtime_args, buildVars, outcome >>
        ELSE IF ~IsOk(bytes)
        THEN Fail(bytes) /\ UNCHANGED << arg_idx, runtime_args, buildVars >>
        ELSE /\ runtime_args' = Append(runtime_args,
                                       [name |-> arg.name, cl_value |-> CLValue(cl_type, bytes.val)])
             /\ arg_idx' = arg_idx + 1
             /\ UNCHANGED << pc, buildVars, outcome >>
  /\ UNCHANGED << cliVars, callVars, codec >>

\* args.rs compose returns the runtime args
ComposeReturn ==
  /\ pc = "compose"
  /\ arg_idx > Len(entry_point.arguments)
  /\ pc' = "done"
  /\ outcome' = Ok(runtime_args)
  /\ UNCHANGED << cliVars, callVars, arg_idx, runtime_args, buildVars, codec >>

\* build_complex_arg: the leaf at hand, its values and its parent segment
Leaf == parts[leaf_idx]
LeafValues == get_many(flags, matches, Leaf.name)
LeafSegments == split(Leaf.name, ".")
LeafParent == LeafSegments[Len(LeafSegments) - 1]

\* args.rs build_complex_arg, one round of the loop up to the choice of the
\* branch: a list element of the current group is added to it, any other leaf
\* has the group flushed first
ComplexLeaf ==
  /\ pc = "complex"
  /\ leaf_idx <= Len(parts)
  /\ IF ~IsOk(LeafValues)
     THEN Fail(LeafValues) /\ UNCHANGED << leaf_idx, current_group >>
     ELSE IF LeafValues.val = << >>
     THEN Fail(Panic("Arg not found")) /\ UNCHANGED << leaf_idx, current_group >>
     ELSE IF Len(LeafSegments) < 2
     THEN Fail(Panic("index out of bounds")) /\ UNCHANGED << leaf_idx, current_group >>
     ELSE IF current_group.name # LeafParent /\ Leaf.is_list_element
     THEN pc' = "flush_start_group" /\ UNCHANGED << leaf_idx, current_group, outcome >>
     ELSE IF current_group.name = LeafParent /\ Leaf.is_list_element
     THEN /\ current_group' = add(current_group, << Leaf.ty, LeafValues.val >>)
          /\ leaf_idx' = leaf_idx + 1
          /\ UNCHANGED << pc, outcome >>
     ELSE pc' = "flush_append_leaf" /\ UNCHANGED << leaf_idx, current_group, outcome >>
  /\ UNCHANGED << cliVars, callVars, arg_idx, runtime_args, parts, buffer, codec >>

\* a loop that ends without flushing the last group
ComplexEnd_unflushed ==
  /\ pc = "complex"
  /\ leaf_idx > Len(parts)
  /\ pc' = "finish"
  /\ UNCHANGED << cliVars, callVars, arg_idx, runtime_args, buildVars, outcome, codec >>

\* args.rs build_complex_arg, after the loop: the last group is flushed
ComplexEnd ==
  /\ pc = "complex"
  /\ leaf_idx > Len(parts)
  /\ pc' = "flush_finish"
  /\ UNCHANGED << cliVars, callVars, arg_idx, runtime_args, buildVars, outcome, codec >>

\* the step that follows each flush
AfterFlush ==
  CASE pc = "flush_start_group" -> "start_group"
    [] pc = "flush_append_leaf" -> "append_leaf"
    [] pc = "flush_finish" -> "finish"

\* ComposedArg::flush(&mut buffer)
Flush ==
  /\ pc \in {"flush_start_group", "flush_append_leaf", "flush_finish"}
  /\ IF IsOk(flush(current_group))
     THEN /\ buffer' = buffer \o flush(current_group).val
          /\ current_group' = [current_group EXCEPT !.values = << >>]
          /\ pc' = AfterFlush
          /\ UNCHANGED outcome
     ELSE Fail(flush(current_group)) /\ UNCHANGED << buffer, current_group >>
  /\ UNCHANGED << cliVars, callVars, arg_idx, runtime_args, parts, leaf_idx, codec >>

\* build_complex_arg, first branch after the flush: a new group named after
\* the parent segment, holding the leaf
StartGroup ==
  /\ pc = "start_group"
  /\ current_group' = add(ComposedArg(LeafParent), << Leaf.ty, LeafValues.val >>)
  /\ leaf_idx' = leaf_idx + 1
  /\ pc' = "complex"
  /\ UNCHANGED << cliVars, callVars, arg_idx, runtime_args, parts, buffer, outcome, codec >>

\* build_complex_arg, last branch after the flush: the leaf's first value is
\* encoded and appended
AppendLeaf ==
  /\ pc = "append_leaf"
  /\ LET bytes == into_bytes(Leaf.ty, LeafValues.val[1])
     IN IF IsOk(bytes)
        THEN /\ buffer' = buffer \o bytes.val
             /\ leaf_idx' = leaf_idx + 1
             /\ pc' = "complex"
             /\ UNCHANGED outcome
        ELSE Fail(bytes) /\ UNCHANGED << buffer, leaf_idx >>
  /\ UNCHANGED << cliVars, callVars, arg_idx, runtime_args, parts, current_group, codec >>

\* build_complex_arg returns the buffer as a CLValue of type Any, which
\* compose inserts under the argument's name
FinishComplex ==
  /\ pc = "finish"
  /\ runtime_args' = Append(runtime_args,
                            [name |-> CurrentArg.name, cl_value |-> CLValue([k |-> "Any"], buffer)])
  /\ arg_idx' = arg_idx + 1
  /\ pc' = "compose"
  /\ UNCHANGED << cliVars, callVars, buildVars, outcome, codec >>

Next ==
  \/ RegisterFlags
  \/ /\ pc = "ready"
     /\ \E i \in 1..Len(commands) : \E m \in MatchSets(commands[i]) : GetMatches(i, m)
  \/ ComposeArg
  \/ ComposeReturn
  \/ ComplexLeaf
  \/ ComplexEnd
  \/ Flush
  \/ StartGroup
  \/ AppendLeaf
  \/ FinishComplex

Spec == Init /\ [][Next]_vars

(***************************************************************************)
(* The command line interface as its builder assembles it: OdraCli::new    *)
(* starts from an empty registry, every OdraCli::contract adds the custom  *)
(* types of a contract and those of register_missing_types and flattens    *)
(* the flags of the contract's entry points, and run composes a call of    *)
(* one of the entry points registered so far.                              *)
(***************************************************************************)
MaxContracts == 2

s_Receipt == << "R", "e", "c", "e", "i", "p", "t" >>
s_receipt == << "r", "e", "c", "e", "i", "p", "t" >>
s_paid == << "p", "a", "i", "d" >>
s_settle == << "s", "e", "t", "t", "l", "e" >>
s_TokenRenewalInfo ==
  << "T", "o", "k", "e", "n", "R", "e", "n", "e", "w", "a", "l", "I", "n", "f", "o" >>
s_token_id == << "t", "o", "k", "e", "n", "_", "i", "d" >>

\* tmp.rs register_missing_types, the definitions it inserts (the member
\* owner of NameMintInfo, a Key, is left out as it is in VoucherTypes)
MissingTypes ==
  { Struct(s_NameMintInfo,
           << StructMember(s_label, String), StructMember(s_token_expiration, U64) >>),
    Struct(s_TokenRenewalInfo,
           << StructMember(s_token_id, String), StructMember(s_token_expiration, U64) >>),
    Struct(s_NameTokenMetadata,
           << StructMember(s_token_hash, String),
              StructMember(s_expiration, U64),
              StructMember(s_resolver, Option(Key)) >>) }

\* a second contract, with a type of its own
ReceiptTypes == { Struct(s_Receipt, << StructMember(s_paid, Bool), StructMember(s_by, U8) >>) }

ReceiptEntrypoints ==
  << Entrypoint(s_settle, << Argument(s_receipt, Custom(s_Receipt), FALSE) >>) >>

CliContracts ==
  Contracts \cup { [types |-> ReceiptTypes, entrypoints |-> ReceiptEntrypoints] }

\* the contracts registered so far
RegisteredContracts ==
  { c \in CliContracts : \E i \in 1..Len(entrypoints) : entrypoints[i] = c.entrypoints[1] }

\* lib.rs OdraCli::new
InitNew == InitCli([types |-> { }, entrypoints |-> << >>]) /\ codec = NoCall

\* lib.rs OdraCli::contract::<T>(): the registry is extended with the types
\* of T and with the missing types, then the flags of every entry point of
\* T but "init" are flattened against it
contract(T) ==
  /\ pc \in {"new", "ready"}
  /\ T \notin RegisteredContracts
  /\ Cardinality(RegisteredContracts) < MaxContracts
  /\ LET types == (custom_types \cup T.types) \cup MissingTypes
         rs == [i \in 1..Len(T.entrypoints) |->
                 IF T.entrypoints[i].name = s_init THEN Ok(<< >>)
                 ELSE entry_point_args(T.entrypoints[i], types)]
     IN /\ custom_types' = types
        /\ entrypoints' = entrypoints \o T.entrypoints
        /\ IF IsOk(collect(rs))
           THEN /\ commands' = commands \o collect(rs).val
                /\ pc' = "ready"
                /\ UNCHANGED outcome
           ELSE /\ Fail(collect(rs))
                /\ UNCHANGED commands
  /\ UNCHANGED << callVars, arg_idx, runtime_args, buildVars, codec >>

NextCli ==
  \/ \E T \in CliContracts : contract(T)
  \/ /\ pc = "ready"
     /\ \E i \in 1..Len(commands) : \E m \in MatchSets(commands[i]) : GetMatches(i, m)
  \/ ComposeArg
  \/ ComposeReturn
  \/ ComplexLeaf
  \/ ComplexEnd
  \/ Flush
  \/ StartGroup
  \/ AppendLeaf
  \/ FinishComplex

SpecCli == InitNew /\ [][NextCli]_vars

(***************************************************************************)
(* The leaf codec on its own: a type, a text and the bytes that follow the *)
(* value in the buffer are chosen, into_bytes encodes the text and         *)
(* from_bytes decodes the encoding followed by those bytes.                *)
(***************************************************************************)
CodecTypes ==
  { Bool, U8, I32, I64, U32, U64, U128, U256, U512, String, Unit,
    Option(U8), Option(String), Result(U8, String),
    Tuple1(U8), Tuple1(String), Tuple2(U8, Bool), Tuple3(U8, Bool, String), Map(U8, String), List(U8),
    List(Option(U8)), ByteArray(2) }

CodecTexts ==
  { << "t", "r", "u", "e" >>,
    << "7" >>,
    << "-", "1" >>,
    << "3", "0", "0" >>,
    << "a", "b" >>,
    << >>,
    << "n", "o", "n", "e" >>,
    << "s", "o", "m", "e", ":", "7" >>,
    << "s", "o", "m", "e", ":", "a", "b" >>,
    << "o", "k", ":", "7" >>,
    << "e", "r", "r", ":", "a", "b" >>,
    << "7", ",", "t", "r", "u", "e" >>,
    << "7", ",", "t", "r", "u", "e", ",", "a", "b" >>,
    << "7", ":", "a", "b" >>,
    << "7", ":", "a", "b", ",", "8", ":" >>,
    << "7", ",", "8" >>,
    << "n", "o", "n", "e", ",", "s", "o", "m", "e", ":", "7" >>,
    << "0", "x", "0", "1", "0", "2" >>,
    << "1", ",", "2" >>,
    << "0" >>,
    << "0", "0", "7" >>,
    << "2", "5", "5" >>,
    << "2", "5", "6" >>,
    << "-", "2", "1", "4", "7", "4", "8", "3", "6", "4", "8" >>,
    << "4", "2", "9", "4", "9", "6", "7", "2", "9", "6" >>,
    << "1", "8", "4", "4", "6", "7", "4", "4", "0", "7", "3", "7", "0", "9", "5", "5", "1", "6", "1", "5" >>,
    << "0", "x", "0", "1", "2" >>,
    << "0", "x", "0", "1" >>,
    << "0", "x", "0", "1", "0", "2", "0", "3" >>,
    << "2", "5", "6", ",", "1" >>,
    << "1", ",", "2", ",", "3" >> }

ExtraBytes == {0, 1, 255}

\* the byte sequences of length up to MaxExtra
Extras == UNION { [1..n -> ExtraBytes] : n \in 0..MaxExtra }

InitCodec ==
  /\ InitCli([types |-> { }, entrypoints |-> << >>])
  /\ codec \in { [pc |-> "chosen", ty |-> ty, input |-> input, extra |-> extra,
                  encoded |-> NoCall, decoded |-> NoCall] :
                 ty \in CodecTypes, input \in CodecTexts, extra \in Extras }

\* types.rs into_bytes(ty, input)
Encode ==
  /\ codec.pc = "chosen"
  /\ codec' = [codec EXCEPT !.encoded = into_bytes(codec.ty, codec.input),
                            !.pc = IF IsOk(into_bytes(codec.ty, codec.input))
                                   THEN "encoded" ELSE "rejected"]
  /\ UNCHANGED << cliVars, callVars, pc, arg_idx, runtime_args, buildVars, outcome >>

\* types.rs from_bytes(ty, bytes), the bytes being the encoding and what follows it
Decode ==
  /\ codec.pc = "encoded"
  /\ codec' = [codec EXCEPT !.decoded = from_bytes(codec.ty, codec.encoded.val \o codec.extra),
                            !.pc = "decoded"]
  /\ UNCHANGED << cliVars, callVars, pc, arg_idx, runtime_args, buildVars, outcome >>

NextCodec ==
  \/ Encode
  \/ Decode

SpecCodec == InitCodec /\ [][NextCodec]_vars

(***************************************************************************)
(* decode on its own: the payloads of two values are written one after the *)
(* other as the contract writes them, the last MaxCut bytes at most are    *)
(* cut off, and decode reads the first value and then, from the remainder, *)
(* the second.  A value is the text of a leaf, the sequence of the         *)
(* elements of a list, the sequence of the members of a struct, or the     *)
(* text of the discriminant of an enum and the value of its payload.       *)
(***************************************************************************)
\* the most bytes cut off the end of a buffer
MaxCut == 1

\* args.rs t::NameTokenMetadata
NameTokenMetadata ==
  Struct(s_NameTokenMetadata,
         << StructMember(s_token_hash, String),
            StructMember(s_expiration, U64),
            StructMember(s_resolver, Option(Key)) >>)

DecodeTypes == VoucherTypes \cup { NameTokenMetadata }

\* args.rs t::NAMED_TOKEN_METADATA_BYTES
NAMED_TOKEN_METADATA_BYTES ==
  << 4, 0, 0, 0, 107, 112, 111, 98, 0, 32, 74, 169, 209, 1, 0, 0, 1, 1, 226, 74, 54, 110,
     186, 196, 135, 233, 243, 218, 49, 175, 91, 142, 42, 103, 172, 205, 97, 76, 95, 247,
     61, 188, 60, 100, 10, 52, 124, 59, 94, 73 >>

\* args.rs t::NAMED_TOKEN_METADATA_JSON
NAMED_TOKEN_METADATA_JSON ==
  << "{", "\n", " ", " ", "\"", "t", "o", "k", "e", "n", "_", "h", "a", "s", "h", "\"",
     ":", " ", "\"", "k", "p", "o", "b", "\"", ",", "\n", " ", " ", "\"", "e", "x", "p",
     "i", "r", "a", "t", "i", "o", "n", "\"", ":", " ", "\"", "2", "0", "0", "0", "0",
     "0", "0", "0", "0", "0", "0", "0", "0", "\"", ",", "\n", " ", " ", "\"", "r", "e",
     "s", "o", "l", "v", "e", "r", "\"", ":", " ", "\"", "K", "e", "y", ":", ":", "H",
     "a", "s", "h", "(", "e", "2", "4", "a", "3", "6", "6", "e", "b", "a", "c", "4", "8",
     "7", "e", "9", "f", "3", "d", "a", "3", "1", "a", "f", "5", "b", "8", "e", "2", "a",
     "6", "7", "a", "c", "c", "d", "6", "1", "4", "c", "5", "f", "f", "7", "3", "d", "b",
     "c", "3", "c", "6", "4", "0", "a", "3", "4", "7", "c", "3", "b", "5", "e", "4", "9",
     ")", "\"", "\n", "}" >>

\* the three values of the payload as texts
NamedTokenMetadataValue ==
  << << "k", "p", "o", "b" >>,
     << "2", "0", "0", "0", "0", "0", "0", "0", "0", "0", "0", "0", "0" >>,
     << "s", "o", "m", "e", ":", "K", "e", "y", ":", ":", "H", "a", "s", "h", "(", "e", "2",
        "4", "a", "3", "6", "6", "e", "b", "a", "c", "4", "8", "7", "e", "9", "f", "3",
        "d", "a", "3", "1", "a", "f", "5", "b", "8", "e", "2", "a", "6", "7", "a", "c",
        "c", "d", "6", "1", "4", "c", "5", "f", "f", "7", "3", "d", "b", "c", "3", "c",
        "6", "4", "0", "a", "3", "4", "7", "c", "3", "b", "5", "e", "4", "9", ")" >> >>

RECURSIVE Wire(_, _, _)
\* the bytes of a value in the wire layout of its type
Wire(ty, v, types) ==
  CASE ty.k = "List" -> U32Bytes(Len(v)) \o concat([i \in 1..Len(v) |-> Wire(ty.ty, v[i], types)])
    [] ty.k = "Custom" ->
         LET t == CHOOSE t \in types : t.name = ty.name
         IN IF t.kind = "Struct"
            THEN concat([i \in 1..Len(t.members) |-> Wire(t.members[i].ty, v[i], types)])
            ELSE into_bytes(U8, v[1]).val
                 \o concat([i \in 1..Len(t.variants) |->
                      IF into_bytes(U8, v[1]).val = << t.variants[i].discriminant >>
                      THEN Wire(t.variants[i].ty, v[2], types) ELSE << >>])
    [] ty.k = "Key" ->
         \* the text Key::Hash(<hex>): the tag of a hash key and its 32 bytes
         << 1 >> \o hex_decode(SubSeq(v, 11, Len(v) - 1)).val
    [] ty.k = "Option" /\ ty.ty.k = "Key" ->
         IF v = << "n", "o", "n", "e" >> THEN << OPTION_NONE_TAG >>
         ELSE << OPTION_SOME_TAG >> \o Wire(ty.ty, strip_prefix(v, << "s", "o", "m", "e", ":" >>), types)
    [] OTHER -> into_bytes(ty, v).val

DecodeCases ==
  << [ty |-> U8, v |-> << "7" >>],
     [ty |-> U64, v |-> << "2" >>],
     [ty |-> I32, v |-> << "-", "1" >>],
     [ty |-> U512, v |-> << "3", "0", "0" >>],
     [ty |-> Bool, v |-> << "t", "r", "u", "e" >>],
     [ty |-> String, v |-> << "b" >>],
     [ty |-> String, v |-> << "a", "\"" >>],
     [ty |-> Option(U8), v |-> << "n", "o", "n", "e" >>],
     [ty |-> Option(U8), v |-> << "s", "o", "m", "e", ":", "7" >>],
     [ty |-> ByteArray(2), v |-> << "0", "x", "0", "1", "0", "2" >>],
     [ty |-> List(U8), v |-> << << "1" >>, << "2" >> >>],
     [ty |-> List(U8), v |-> << >>],
     [ty |-> List(String), v |-> << << "b" >> >>],
     [ty |-> List(Bool), v |-> << << "t", "r", "u", "e" >>, << "f", "a", "l", "s", "e" >> >>],
     [ty |-> Custom(s_NameMintInfo), v |-> << << "b" >>, << "1" >> >>],
     [ty |-> Custom(s_NameMintInfo), v |-> << << "a", "\"" >>, << "1" >> >>],
     [ty |-> Custom(s_Seal), v |-> << << "5" >> >>],
     [ty |-> List(Custom(s_NameMintInfo)),
      v |-> << << << "b" >>, << "1" >> >>, << << "c", "c" >>, << "2" >> >> >>],
     [ty |-> Custom(s_PaymentInfo), v |-> << << "b" >>, << "3", "0", "0" >> >>],
     [ty |-> Custom(s_PaymentVoucher),
      v |-> << << << "b" >>, << "1" >> >>, << << << "b" >>, << "1" >> >> >>, << "3" >> >>],
     [ty |-> Custom(s_Kind), v |-> << << "0" >>, << >> >>],
     [ty |-> Custom(s_Kind), v |-> << << "1" >>, << << "5" >> >> >>],
     [ty |-> Custom(s_Kind), v |-> << << "2" >>, << >> >>],
     [ty |-> Custom(s_NameTokenMetadata), v |-> NamedTokenMetadataValue],
     [ty |-> Unit, v |-> << >>],
     [ty |-> Custom(s_NameMintInfo), v |-> << << "a", "\\" >>, << "1" >> >>] >>

\* the case decoded first and the case decoded second
First == DecodeCases[codec.first]
Second == DecodeCases[codec.second]

InitDecode ==
  /\ InitCli([types |-> DecodeTypes, entrypoints |-> << >>])
  /\ \E first \in 1..Len(DecodeCases), second \in 1..Len(DecodeCases), cut \in 0..MaxCut :
       LET whole == Wire(DecodeCases[first].ty, DecodeCases[first].v, DecodeTypes)
                    \o Wire(DecodeCases[second].ty, DecodeCases[second].v, DecodeTypes)
       IN /\ cut <= Len(whole)
          /\ codec = [pc |-> "chosen", first |-> first, second |-> second, cut |-> cut,
                      bytes |-> SubSeq(whole, 1, Len(whole) - cut), results |-> << >>]

\* args.rs decode(bytes, ty, types) on the whole buffer
DecodeFirst ==
  /\ codec.pc = "chosen"
  /\ codec' = [codec EXCEPT !.results = << decode(codec.bytes, First.ty, custom_types) >>,
                            !.pc = "first"]
  /\ UNCHANGED << cliVars, callVars, pc, arg_idx, runtime_args, buildVars, outcome >>

\* args.rs decode(rem, ty, types) on the remainder the first call returned
DecodeSecond ==
  /\ codec.pc = "first"
  /\ IsOk(codec.results[1])
  /\ codec' = [codec EXCEPT !.results = Append(codec.results,
                                           decode(codec.results[1].val.rem, Second.ty, custom_types)),
                            !.pc = "second"]
  /\ UNCHANGED << cliVars, callVars, pc, arg_idx, runtime_args, buildVars, outcome >>

NextDecode ==
  \/ DecodeFirst
  \/ DecodeSecond

SpecDecode == InitDecode /\ [][NextDecode]_vars

(***************************************************************************)
(* The recursion of flat_arg and of decode, step by step.  A call is the   *)
(* stack of what is still to be visited, the node at hand first: a step    *)
(* takes the first node and puts in its place what the code recurses into  *)
(* for it, in order.  Names and rendered text, which no branch depends on, *)
(* are left out, and of the flags produced only the first MaxLeaves are    *)
(* kept.                                                                   *)
(***************************************************************************)
MaxLeaves == 3

s_Node == << "N", "o", "d", "e" >>
s_Chain == << "C", "h", "a", "i", "n" >>
s_Ping == << "P", "i", "n", "g" >>
s_Pong == << "P", "o", "n", "g" >>
s_id == << "i", "d" >>
s_next == << "n", "e", "x", "t" >>
s_rest == << "r", "e", "s", "t" >>
s_ping == << "p", "i", "n", "g" >>
s_pong == << "p", "o", "n", "g" >>

\* a registry in which structs refer to themselves: directly, through a
\* List, and through another struct
CyclicTypes ==
  { Struct(s_Node, << StructMember(s_id, U8), StructMember(s_next, Custom(s_Node)) >>),
    Struct(s_Chain, << StructMember(s_rest, List(Custom(s_Chain))) >>),
    Struct(s_Ping, << StructMember(s_pong, Custom(s_Pong)) >>),
    Struct(s_Pong, << StructMember(s_ping, Custom(s_Ping)) >>) }

WalkRegistries == { VoucherTypes, VoucherTypes \cup CyclicTypes }

\* the types a call starts from
WalkRoots ==
  { U8, String, List(U8), Custom(s_Missing), Custom(s_Seal), Custom(s_Kind),
    Custom(s_NameMintInfo), List(Custom(s_NameMintInfo)), Custom(s_PaymentInfo),
    Custom(s_PaymentVoucher), Custom(s_Node), Custom(s_Chain), List(Custom(s_Chain)),
    Custom(s_Ping) }

\* the buffers decode is called on
WalkBuffers ==
  { << >>, << 7 >>, << 7, 7 >>, << 0, 0, 0, 0 >>, << 1, 0, 0, 0 >>,
    << 1, 0, 0, 0, 0, 0, 0, 0 >>, << 2, 0, 0, 0, 0, 0, 0, 0, 0, 0, 0, 0 >> }

\* a node to visit
Visit(ty, is_list_element) == [ty |-> ty, is_list_element |-> is_list_element]

InitWalk ==
  /\ \E types \in WalkRegistries : InitCli([types |-> types, entrypoints |-> << >>])
  /\ codec \in
       { [pc |-> "flat_arg", stack |-> << Visit(ty, FALSE) >>, leaves |-> << >>, bytes |-> << >>] :
           ty \in WalkRoots }
       \cup
       { [pc |-> "decode", stack |-> << Visit(ty, FALSE) >>, leaves |-> << >>, bytes |-> bytes] :
           ty \in WalkRoots, bytes \in WalkBuffers }

\* the node at hand and the nodes after it
Node == Head(codec.stack)
Pending == Tail(codec.stack)

\* args.rs flat_arg, one call: a Custom type is looked up and the call
\* recurses into its members or variants, a List into its element type, any
\* other type gives a flag
flat_arg_step ==
  /\ codec.pc = "flat_arg"
  /\ codec.stack # << >>
  /\ codec' =
       CASE Node.ty.k = "Custom" ->
              LET matching_type == find_type(custom_types, Node.ty.name)
              IN IF ~IsOk(matching_type)
                 THEN [codec EXCEPT !.pc = "failed"]
                 ELSE IF matching_type.val.kind = "Struct"
                 THEN [codec EXCEPT !.stack =
                         [i \in 1..Len(matching_type.val.members) |->
                            Visit(matching_type.val.members[i].ty, Node.is_list_element)]
                         \o Pending]
                 ELSE [codec EXCEPT !.stack =
                         [i \in 1..Len(matching_type.val.variants) |->
                            Visit(matching_type.val.variants[i].ty, Node.is_list_element)]
                         \o Pending]
         [] Node.ty.k = "List" ->
              [codec EXCEPT !.stack = << Visit(Node.ty.ty, TRUE) >> \o Pending]
         [] OTHER ->
              [codec EXCEPT !.stack = Pending,
                            !.leaves = IF Len(codec.leaves) < MaxLeaves
                                       THEN Append(codec.leaves, Node)
                                       ELSE codec.leaves]
  /\ UNCHANGED << cliVars, callVars, pc, arg_idx, runtime_args, buildVars, outcome >>

\* args.rs decode, one call: a struct recurses into its members, an enum
\* reads its discriminant, a List reads its count and recurses once per
\* element, any other type is read by from_bytes
decode_step ==
  /\ codec.pc = "decode"
  /\ codec.stack # << >>
  /\ codec' =
       CASE Node.ty.k = "Custom" ->
              LET matching_type == find_type(custom_types, Node.ty.name)
                  value == from_bytes(U8, codec.bytes)
              IN IF ~IsOk(matching_type)
                 THEN [codec EXCEPT !.pc = "failed"]
                 ELSE IF matching_type.val.kind = "Struct"
                 THEN [codec EXCEPT !.stack =
                         [i \in 1..Len(matching_type.val.members) |->
                            Visit(matching_type.val.members[i].ty, FALSE)]
                         \o Pending]
                 ELSE IF ~IsOk(value)
                         \/ ~IsOk(find_variant(matching_type.val.variants, parse_u16(value.val.text)))
                 THEN [codec EXCEPT !.pc = "failed"]
                 ELSE [codec EXCEPT !.stack = Pending, !.bytes = value.val.rem]
         [] Node.ty.k = "List" ->
              IF Len(codec.bytes) < 4 THEN [codec EXCEPT !.pc = "failed"]
              ELSE [codec EXCEPT !.stack = [i \in 1..CountOf(codec.bytes) |-> Visit(Node.ty.ty, FALSE)]
                                           \o Pending,
                                 !.bytes = Drop(codec.bytes, 4)]
         [] OTHER ->
              IF ~IsOk(from_bytes(Node.ty, codec.bytes)) THEN [codec EXCEPT !.pc = "failed"]
              ELSE [codec EXCEPT !.stack = Pending,
                                 !.bytes = from_bytes(Node.ty, codec.bytes).val.rem]
  /\ UNCHANGED << cliVars, callVars, pc, arg_idx, runtime_args, buildVars, outcome >>

\* nothing is left to visit: the call returns
walk_return ==
  /\ codec.pc \in {"flat_arg", "decode"}
  /\ codec.stack = << >>
  /\ codec' = [codec EXCEPT !.pc = "returned"]
  /\ UNCHANGED << cliVars, callVars, pc, arg_idx, runtime_args, buildVars, outcome >>

NextWalk ==
  \/ flat_arg_step
  \/ decode_step
  \/ walk_return

\* a call that can take a step does take it
SpecWalk == InitWalk /\ [][NextWalk]_vars /\ WF_vars(NextWalk)

(***************************************************************************)
(* The file of deployed contracts (container.rs).  The file system is the  *)
(* function from the paths that exist to what they hold; the clock is the  *)
(* second Utc::now() would return.  A file holds the container it was      *)
(* saved from, or text that is no container (valid = FALSE).               *)
(***************************************************************************)
MaxNow == 3
MaxDeployed == 2

DEPLOYED_CONTRACTS_FILE == "resources/deployed_contracts.toml"

\* file_path(), and the path format!("{}.{}", DEPLOYED_CONTRACTS_FILE, date)
file_path == << DEPLOYED_CONTRACTS_FILE >>
previous_path(date) == << DEPLOYED_CONTRACTS_FILE, date >>

DeployedContractsContainer(time, contracts) ==
  [valid |-> TRUE, time |-> time, contracts |-> contracts]
NotToml == [valid |-> FALSE, time |-> 0, contracts |-> << >>]

\* the names T::ident() of the contracts that are deployed
Idents == {"Voucher", "Receipt"}

\* File::create and write_all
save_at(files, path, container) ==
  [p \in (DOMAIN files) \cup {path} |-> IF p = path THEN container ELSE files[p]]

\* std::fs::remove_file
remove_file(files, path) == [p \in (DOMAIN files) \ {path} |-> files[p]]

\* DeployedContractsContainer::load
load(files) ==
  IF file_path \notin DOMAIN files THEN Err("Couldn't read file")
  ELSE IF ~files[file_path].valid THEN Err("Invalid TOML")
  ELSE Ok(files[file_path])

\* handle_previous_version: the file system it leaves
handle_previous_version(files) ==
  IF IsOk(load(files))
  THEN LET deployed_contracts == load(files).val
           path == previous_path(deployed_contracts.time)
       IN remove_file(save_at(files, path, deployed_contracts), path)
  ELSE files

InitFiles ==
  /\ InitCli([types |-> { }, entrypoints |-> << >>])
  /\ \E files \in { << >> } \cup
                  { [p \in {file_path} |-> c] :
                      c \in {NotToml, DeployedContractsContainer(0, << >>),
                             DeployedContractsContainer(0, << "Voucher" >>)} } :
       codec = [files |-> files, now |-> 1, open |-> FALSE,
                container |-> DeployedContractsContainer(0, << >>)]

\* a second passes
Tick ==
  /\ codec.now < MaxNow
  /\ codec' = [codec EXCEPT !.now = codec.now + 1]
  /\ UNCHANGED << cliVars, callVars, pc, arg_idx, runtime_args, buildVars, outcome >>

\* DeployedContractsContainer::new
new ==
  /\ codec' = [codec EXCEPT !.files = handle_previous_version(codec.files),
                            !.open = TRUE,
                            !.container = DeployedContractsContainer(codec.now, << >>)]
  /\ UNCHANGED << cliVars, callVars, pc, arg_idx, runtime_args, buildVars, outcome >>

\* add_contract: the contract is pushed and the file is written
add_contract(ident) ==
  /\ codec.open
  /\ Len(codec.container.contracts) < MaxDeployed
  /\ LET container == [codec.container EXCEPT !.contracts = Append(@, ident)]
     IN codec' = [codec EXCEPT !.container = container,
                               !.files = save_at(codec.files, file_path, container)]
  /\ UNCHANGED << cliVars, callVars, pc, arg_idx, runtime_args, buildVars, outcome >>

\* the process ends; the next one starts without a container
Exit ==
  /\ codec.open
  /\ codec' = [codec EXCEPT !.open = FALSE, !.container = DeployedContractsContainer(0, << >>)]
  /\ UNCHANGED << cliVars, callVars, pc, arg_idx, runtime_args, buildVars, outcome >>

NextFiles ==
  \/ Tick
  \/ new
  \/ \E ident \in Idents : add_contract(ident)
  \/ Exit

SpecFiles == InitFiles /\ [][NextFiles]_vars

(***************************************************************************)
(* A contract whose arguments are structs that hold lists side by side,    *)
(* lists under members of one name, a list of structs with a nested        *)
(* struct, and a struct with a single member.                              *)
(***************************************************************************)
s_Pair == << "P", "a", "i", "r" >>
s_Two == << "T", "w", "o" >>
s_Box == << "B", "o", "x" >>
s_Item == << "I", "t", "e", "m" >>
s_Holder == << "H", "o", "l", "d", "e", "r" >>
s_Rec == << "R", "e", "c" >>
s_Owner == << "O", "w", "n", "e", "r" >>
s_s == << "s" >>
s_xs == << "x", "s" >>
s_ys == << "y", "s" >>
s_a == << "a" >>
s_b == << "b" >>
s_f == << "f" >>
s_owner == << "o", "w", "n", "e", "r" >>
s_note == << "n", "o", "t", "e" >>
s_pair == << "p", "a", "i", "r" >>
s_two == << "t", "w", "o" >>
s_hold == << "h", "o", "l", "d" >>
s_seal == << "s", "e", "a", "l" >>

ShelfTypes ==
  { Struct(s_Pair, << StructMember(s_xs, List(U8)), StructMember(s_ys, List(U8)) >>),
    Struct(s_Two, << StructMember(s_a, Custom(s_Box)), StructMember(s_b, Custom(s_Box)) >>),
    Struct(s_Box, << StructMember(s_items, List(Custom(s_Item))) >>),
    Struct(s_Item, << StructMember(s_f, U8) >>),
    Struct(s_Holder, << StructMember(s_items, List(Custom(s_Rec))), StructMember(s_note, U8) >>),
    Struct(s_Rec, << StructMember(s_label, String), StructMember(s_owner, Custom(s_Owner)) >>),
    Struct(s_Owner, << StructMember(s_id, U8) >>),
    Struct(s_Seal, << StructMember(s_by, U8) >>) }

ShelfEntrypoints ==
  << Entrypoint(s_pair, << Argument(s_s, Custom(s_Pair), FALSE) >>),
     Entrypoint(s_two, << Argument(s_s, Custom(s_Two), FALSE) >>),
     Entrypoint(s_hold, << Argument(s_s, Custom(s_Holder), FALSE) >>),
     Entrypoint(s_seal, << Argument(s_limit, U8, TRUE), Argument(s_s, Custom(s_Seal), FALSE) >>) >>

InitShelf ==
  /\ InitCli([types |-> ShelfTypes, entrypoints |-> ShelfEntrypoints])
  /\ codec = NoCall

SpecShelf == InitShelf /\ [][Next]_vars

(***************************************************************************)
(* What the schema and the command line say a payload is, written without  *)
(* the flattener and the composer: the types are walked as declared.       *)
(***************************************************************************)
\* the custom type of a name
TypeNamed(name) == CHOOSE t \in custom_types : t.name = name

IsDefined(name) == \E t \in custom_types : t.name = name

\* the values the command line gives the flag of a path
ValuesOf(path) ==
  IF \E i \in 1..Len(flags) : flags[i].name = path
  THEN matches[CHOOSE i \in 1..Len(flags) : flags[i].name = path]
  ELSE << >>

IsStructType(ty) == ty.k = "Custom" /\ IsDefined(ty.name) /\ TypeNamed(ty.name).kind = "Struct"

IsEnumType(ty) == ty.k = "Custom" /\ IsDefined(ty.name) /\ TypeNamed(ty.name).kind = "Enum"

\* a struct all of whose fields are leaves
IsRecord(ty) ==
  /\ IsStructType(ty)
  /\ \A i \in 1..Len(TypeNamed(ty.name).members) :
       TypeNamed(ty.name).members[i].ty.k \notin {"Custom", "List"}

IsRecordList(ty) == ty.k = "List" /\ IsRecord(ty.ty)

RECURSIVE ContainsRecordList(_)
ContainsRecordList(ty) ==
  \/ IsRecordList(ty)
  \/ /\ IsStructType(ty)
     /\ \E i \in 1..Len(TypeNamed(ty.name).members) :
          ContainsRecordList(TypeNamed(ty.name).members[i].ty)

Encodable(ty, texts) == \A i \in 1..Len(texts) : IsOk(into_bytes(ty, texts[i]))

RECURSIVE Regular(_, _)
\* every field of every list of records was given the same number of values,
\* at least one, every other leaf one value, and every value is encodable
Regular(ty, path) ==
  IF IsRecordList(ty)
  THEN LET fields == TypeNamed(ty.ty.name).members
       IN \E L \in 1..(MaxVals + 1) :
            \A j \in 1..Len(fields) :
              /\ Len(ValuesOf(Dotted(path, fields[j].name))) = L
              /\ Encodable(fields[j].ty, ValuesOf(Dotted(path, fields[j].name)))
  ELSE IF IsStructType(ty)
  THEN \A i \in 1..Len(TypeNamed(ty.name).members) :
         Regular(TypeNamed(ty.name).members[i].ty, Dotted(path, TypeNamed(ty.name).members[i].name))
  ELSE /\ ty.k \notin {"Custom", "List"}
       /\ Len(ValuesOf(path)) = 1
       /\ Encodable(ty, ValuesOf(path))

\* the records of a list: the count, then record after record, each in field order
Records(fields, path) ==
  LET L == Len(ValuesOf(Dotted(path, fields[1].name)))
  IN U32Bytes(L) \o
     concat([i \in 1..L |->
       concat([j \in 1..Len(fields) |->
         into_bytes(fields[j].ty, ValuesOf(Dotted(path, fields[j].name))[i]).val])])

RECURSIVE Payload(_, _)
\* the payload of a regular argument
Payload(ty, path) ==
  IF IsRecordList(ty) THEN Records(TypeNamed(ty.ty.name).members, path)
  ELSE IF IsStructType(ty)
  THEN concat([i \in 1..Len(TypeNamed(ty.name).members) |->
         Payload(TypeNamed(ty.name).members[i].ty, Dotted(path, TypeNamed(ty.name).members[i].name))])
  ELSE into_bytes(ty, ValuesOf(path)[1]).val

\* compose is past the argument of index a: its value, if any, is in runtime_args
Composed(a) == pc \notin {"new", "ready"} /\ a < arg_idx

\* the payload compose stored under a name
StoredUnder(name, bytes) ==
  \E n \in 1..Len(runtime_args) :
    runtime_args[n].name = name /\ runtime_args[n].cl_value.bytes = bytes

(***************************************************************************)
(* C1: when every field of a list of records inside a composite argument   *)
(* was given L values (L at least 1), compose does not fail on the         *)
(* argument and the payload it stores holds, for the list, the count L in  *)
(* four little-endian bytes followed by the L records one after the other, *)
(* each with its fields in declaration order; the values are never grouped *)
(* by field.                                                               *)
(***************************************************************************)
C1_RecordsRowByRow ==
  \A a \in 1..Len(entry_point.arguments) :
    LET arg == entry_point.arguments[a]
    IN (pc \notin {"new", "ready"} /\ ContainsRecordList(arg.ty) /\ Regular(arg.ty, arg.name)) =>
         /\ (a = arg_idx => pc # "failed")
         /\ (a < arg_idx => StoredUnder(arg.name, Payload(arg.ty, arg.name)))

\* mint was composed with two records in voucher.names
C1_TwoRecords ==
  /\ pc = "done"
  /\ entry_point.name = s_mint
  /\ Regular(Custom(s_PaymentVoucher), s_voucher)
  /\ Len(ValuesOf(Dotted(Dotted(s_voucher, s_names), s_label))) = 2
  /\ \E n \in 1..Len(runtime_args) : runtime_args[n].name = s_voucher

(***************************************************************************)
(* The schema walked along a leaf's path.                                  *)
(***************************************************************************)
\* the members of a struct or the variants of an enum, as (segment, type) in
\* declaration order; a variant's segment is its name in lower case
Children(ty) ==
  LET t == TypeNamed(ty.name)
  IN IF t.kind = "Struct"
     THEN [i \in 1..Len(t.members) |-> [name |-> t.members[i].name, ty |-> t.members[i].ty]]
     ELSE [i \in 1..Len(t.variants) |->
            [name |-> to_lowercase(t.variants[i].name), ty |-> t.variants[i].ty]]

HasChild(ty, seg) == \E i \in 1..Len(Children(ty)) : Children(ty)[i].name = seg

ChildIndex(ty, seg) == CHOOSE i \in 1..Len(Children(ty)) : Children(ty)[i].name = seg

RECURSIVE Walk(_, _, _)
\* where the segments lead from a type: the leaf type reached and whether a
\* List was passed on the way
Walk(ty, segs, in_list) ==
  IF ty.k = "List" THEN Walk(ty.ty, segs, TRUE)
  ELSE IF ty.k = "Custom"
  THEN IF segs = << >> \/ ~IsDefined(ty.name) THEN [valid |-> FALSE]
       ELSE IF ~HasChild(ty, Head(segs)) THEN [valid |-> FALSE]
       ELSE Walk(Children(ty)[ChildIndex(ty, Head(segs))].ty, Tail(segs), in_list)
  ELSE IF segs = << >> THEN [valid |-> TRUE, ty |-> ty, in_list |-> in_list]
  ELSE [valid |-> FALSE]

RECURSIVE Indices(_, _)
\* the declaration indices of the members the segments name
Indices(ty, segs) ==
  IF ty.k = "List" THEN Indices(ty.ty, segs)
  ELSE IF ty.k = "Custom" /\ segs # << >> /\ IsDefined(ty.name) /\ HasChild(ty, Head(segs))
  THEN << ChildIndex(ty, Head(segs)) >>
       \o Indices(Children(ty)[ChildIndex(ty, Head(segs))].ty, Tail(segs))
  ELSE << >>

RECURSIVE SumOf(_)
SumOf(ns) == IF ns = << >> THEN 0 ELSE Head(ns) + SumOf(Tail(ns))

RECURSIVE LeafCount(_)
\* the number of leaves below a type
LeafCount(ty) ==
  IF ty.k = "List" THEN LeafCount(ty.ty)
  ELSE IF ty.k = "Custom"
  THEN SumOf([i \in 1..Len(Children(ty)) |-> LeafCount(Children(ty)[i].ty)])
  ELSE 1

\* a precedes b in the order of the declarations, depth first
Precedes(a, b) ==
  \E k \in 1..Len(a) :
    /\ k <= Len(b)
    /\ SubSeq(a, 1, k - 1) = SubSeq(b, 1, k - 1)
    /\ a[k] < b[k]

\* the entry points whose flags are registered, looked at when the registration
\* is over: no later step changes commands
Registered ==
  IF pc = "ready" THEN { e \in 1..Len(commands) : entrypoints[e].name # s_init } ELSE { }

HasArg(e, name) == \E a \in 1..Len(entrypoints[e].arguments) : entrypoints[e].arguments[a].name = name

ArgIndex(e, name) ==
  CHOOSE a \in 1..Len(entrypoints[e].arguments) : entrypoints[e].arguments[a].name = name

\* the argument a leaf belongs to: the one its first segment names
RootOf(e, leaf) == entrypoints[e].arguments[ArgIndex(e, Head(split(leaf.name, ".")))]

\* the walk from the leaf's argument along the rest of the leaf's path
WalkOf(e, leaf) ==
  IF HasArg(e, Head(split(leaf.name, ".")))
  THEN Walk(RootOf(e, leaf).ty, Tail(split(leaf.name, ".")), FALSE)
  ELSE [valid |-> FALSE]

\* the position of a leaf in the declarations: its argument, then the members
OrderKey(e, leaf) ==
  << ArgIndex(e, Head(split(leaf.name, "."))) >>
  \o Indices(RootOf(e, leaf).ty, Tail(split(leaf.name, ".")))

(***************************************************************************)
(* C2: the flags of an entry point are the leaves of its arguments in      *)
(* depth-first declaration order.  Every flag's name is the path of a      *)
(* leaf: the argument's name, then, dot after dot, the name of a member at *)
(* every struct on the way, and the flag has the type of that leaf; there  *)
(* are as many flags as leaves; and of two flags the one whose path        *)
(* branches off at the earlier argument or the earlier member comes first. *)
(***************************************************************************)
C2_DepthFirstDeclarationOrder ==
  \A e \in Registered :
    LET fl == commands[e]
        arguments == entrypoints[e].arguments
    IN /\ Len(fl) = SumOf([a \in 1..Len(arguments) |-> LeafCount(arguments[a].ty)])
       /\ \A p \in 1..Len(fl) :
            /\ WalkOf(e, fl[p]).valid
            /\ WalkOf(e, fl[p]).ty = fl[p].ty
       /\ \A p, q \in 1..Len(fl) :
            p < q => Precedes(OrderKey(e, fl[p]), OrderKey(e, fl[q]))

\* the flags of mint are registered: the five leaves of voucher, two levels
\* deep, then signature
C2_MintFlattened ==
  \E e \in Registered :
    /\ entrypoints[e].name = s_mint
    /\ Len(commands[e]) = 6
    /\ commands[e][2].name = Dotted(Dotted(s_voucher, s_payment), s_amount)
    /\ commands[e][3].name = Dotted(Dotted(s_voucher, s_names), s_label)
    /\ commands[e][6].name = s_signature

(***************************************************************************)
(* C3: a flag is marked as a list element exactly when a List lies on the  *)
(* schema path from its argument to its leaf, the leaf's own type          *)
(* included: every leaf below a List is marked, nested structs and enums   *)
(* included, and no other leaf is.                                         *)
(***************************************************************************)
C3_ListElementIffListOnPath ==
  \A e \in Registered :
    \A p \in 1..Len(commands[e]) :
      /\ WalkOf(e, commands[e][p]).valid
      /\ commands[e][p].is_list_element = WalkOf(e, commands[e][p]).in_list

\* mint is registered with a marked leaf in a struct below a list and an
\* unmarked leaf next to the list
C3_MarkedAndUnmarked ==
  \E e \in Registered :
    /\ entrypoints[e].name = s_mint
    /\ commands[e][4].name = Dotted(Dotted(s_voucher, s_names), s_token_expiration)
    /\ commands[e][4].is_list_element
    /\ commands[e][5].name = Dotted(s_voucher, s_voucher_expiration)
    /\ ~commands[e][5].is_list_element

(***************************************************************************)
(* C4: an argument that is neither Custom nor a List has exactly one flag, *)
(* named as the argument, of the argument's type and required exactly when *)
(* the argument is not optional; and every flag, at whatever depth, is     *)
(* required exactly when its argument is not optional.                     *)
(***************************************************************************)
C4_RequiredIsNotOptional ==
  \A e \in Registered :
    LET fl == commands[e]
        arguments == entrypoints[e].arguments
        Below(a) == { p \in 1..Len(fl) : Head(split(fl[p].name, ".")) = arguments[a].name }
    IN /\ \A p \in 1..Len(fl) :
            /\ HasArg(e, Head(split(fl[p].name, ".")))
            /\ fl[p].required = ~RootOf(e, fl[p]).optional
       /\ \A a \in 1..Len(arguments) :
            arguments[a].ty.k \notin {"Custom", "List"} =>
              /\ Cardinality(Below(a)) = 1
              /\ \A p \in Below(a) :
                   fl[p] = CommandArg(arguments[a].name, arguments[a].ty, ~arguments[a].optional, FALSE)

\* configure is registered: its optional arguments enabled and kind give
\* flags that are not required, two levels down too, and limit a required one
C4_OptionalAndRequired ==
  \E e \in Registered :
    /\ entrypoints[e].name = s_configure
    /\ commands[e][1] = CommandArg(s_enabled, Bool, FALSE, FALSE)
    /\ commands[e][2] = CommandArg(s_limit, Option(U8), TRUE, FALSE)
    /\ commands[e][4].name = Dotted(Dotted(s_kind, s_sealed), s_by)
    /\ ~commands[e][4].required

(***************************************************************************)
(* C5: the flags of an argument of an enum type are the leaves of all its  *)
(* variants together, variant after variant in declaration order; the      *)
(* leaves of a variant are those of its payload type and their paths start *)
(* with the argument's name, a dot and the variant's name in lower case.   *)
(***************************************************************************)
C5_EveryVariantLowerCased ==
  \A e \in Registered :
    \A a \in 1..Len(entrypoints[e].arguments) :
      LET arg == entrypoints[e].arguments[a]
          variants == TypeNamed(arg.ty.name).variants
          Under(leaf) == Head(split(leaf.name, ".")) = arg.name
          Prefix(i) == Dotted(arg.name, to_lowercase(variants[i].name))
          OfVariant(i) ==
            LET In(leaf) == leaf.name = Prefix(i) \/ starts_with(leaf.name, Prefix(i) \o << "." >>)
            IN SelectSeq(commands[e], In)
      IN IsEnumType(arg.ty) =>
           /\ SelectSeq(commands[e], Under) = concat([i \in 1..Len(variants) |-> OfVariant(i)])
           /\ \A i \in 1..Len(variants) :
                /\ Len(OfVariant(i)) = LeafCount(variants[i].ty)
                /\ \A p \in 1..Len(OfVariant(i)) :
                     LET w == Walk(variants[i].ty,
                                   Tail(Tail(split(OfVariant(i)[p].name, "."))), FALSE)
                     IN w.valid /\ w.ty = OfVariant(i)[p].ty

\* configure is registered: kind has the leaf of Open and the leaf of Sealed
C5_BothVariants ==
  \E e \in Registered :
    /\ entrypoints[e].name = s_configure
    /\ commands[e][3] = CommandArg(Dotted(s_kind, s_open), Unit, FALSE, FALSE)
    /\ commands[e][4] = CommandArg(Dotted(Dotted(s_kind, s_sealed), s_by), U8, FALSE, FALSE)

RECURSIVE Dangles(_)
\* the type holds a Custom reference to a name that custom_types does not define
Dangles(ty) ==
  IF ty.k = "List" THEN Dangles(ty.ty)
  ELSE IF ty.k = "Custom"
  THEN \/ ~IsDefined(ty.name)
       \/ \E i \in 1..Len(Children(ty)) : Dangles(Children(ty)[i].ty)
  ELSE FALSE

(***************************************************************************)
(* C6: when an argument of the contract refers to a Custom name that the   *)
(* registry does not hold, flattening its entry point ends in the error    *)
(* UnknownType, returned to the caller: it does not panic and yields no    *)
(* flags.                                                                  *)
(***************************************************************************)
C6_UnknownTypeIsReturned ==
  (/\ pc # "new"
   /\ \E e \in 1..Len(entrypoints) : \E a \in 1..Len(entrypoints[e].arguments) :
        entrypoints[e].name # s_init /\ Dangles(entrypoints[e].arguments[a].ty))
  => (pc = "failed" /\ outcome = Err("UnknownType") /\ commands = << >>)

\* an argument with one leaf that is not below a custom type
SingleLeaf(arg) == arg.ty.k # "Custom" /\ LeafCount(arg.ty) = 1

\* the payload of a list: the count of the texts, then each text encoded
ListPayload(ty, texts) ==
  U32Bytes(Len(texts)) \o concat([i \in 1..Len(texts) |-> into_bytes(ty, texts[i]).val])

(***************************************************************************)
(* C7 as stated: the payload stored for a List argument with one leaf is   *)
(* the count of the strings supplied for its flag, in four bytes, followed *)
(* by each supplied string encoded with the element type.                  *)
(***************************************************************************)
C7_CountOfSuppliedStrings ==
  \A a \in 1..Len(entry_point.arguments) :
    LET arg == entry_point.arguments[a]
        values == ValuesOf(arg.name)
    IN (/\ Composed(a)
        /\ SingleLeaf(arg)
        /\ arg.ty.k = "List"
        /\ \E n \in 1..Len(runtime_args) : runtime_args[n].name = arg.name)
       => /\ Encodable(arg.ty.ty, values)
          /\ StoredUnder(arg.name, ListPayload(arg.ty.ty, values))

(***************************************************************************)
(* C7 amended: for a List argument with one leaf the supplied strings are  *)
(* split at their commas; when every item is encodable, compose does not   *)
(* fail on the argument and stores the count of the items of all the       *)
(* supplied strings, in four bytes, followed by each item encoded with the *)
(* element type.  For an argument with one leaf that is not a List, when   *)
(* the first supplied string is encodable, compose stores its encoding     *)
(* with no count before it.                                                *)
(***************************************************************************)
C7_CountOfCommaSeparatedItems ==
  \A a \in 1..Len(entry_point.arguments) :
    LET arg == entry_point.arguments[a]
        values == ValuesOf(arg.name)
        items == split(join(values, << "," >>), ",")
        expected == IF arg.ty.k = "List" THEN ListPayload(arg.ty.ty, items)
                    ELSE into_bytes(arg.ty, values[1]).val
    IN (/\ pc \notin {"new", "ready"}
        /\ SingleLeaf(arg)
        /\ values # << >>
        /\ IF arg.ty.k = "List" THEN Encodable(arg.ty.ty, items)
           ELSE Encodable(arg.ty, << values[1] >>))
       => /\ (a = arg_idx => pc # "failed")
          /\ (a < arg_idx => StoredUnder(arg.name, expected))

\* mint was composed with one string for signature that holds two items
C7_OneStringTwoItems ==
  /\ pc = "done"
  /\ entry_point.name = s_mint
  /\ ValuesOf(s_signature) = << << "1", ",", "2" >> >>
  /\ StoredUnder(s_signature, << 2, 0, 0, 0, 1, 2 >>)

(***************************************************************************)
(* C8: a flag that is not required and was given no value does not make    *)
(* compose fail, be it the only leaf of its argument or one of the leaves  *)
(* of a composite argument: no run ends at a leaf that is not required for *)
(* want of its value.                                                      *)
(***************************************************************************)
C8_MissingOptionalSkipped ==
  ~(/\ pc = "failed"
    /\ leaf_idx <= Len(parts)
    /\ ~Leaf.required
    /\ ValuesOf(Leaf.name) = << >>
    /\ outcome = Panic("Arg not found"))

C10_DecodeConsumesTheEncoding ==
  codec.pc = "decoded" =>
    /\ IsOk(codec.decoded)
    /\ codec.decoded.val.rem = codec.extra

(***************************************************************************)
(* What a decoded text says, read back as a consumer of the output reads   *)
(* it.                                                                     *)
(***************************************************************************)
IsLeafKind(ty) == ty.k \notin {"List", "Custom"}

IsPrimitive(ty) ==
  ty.k \in {"Bool", "I32", "I64", "U8", "U32", "U64", "U128", "U256", "U512", "String"}

RECURSIVE ShowsJson(_, _, _)
RECURSIVE ShowsText(_, _, _)

\* the JSON value j shows the value v of the type: a list as an array of its
\* elements in order, a struct as an object of its members in declared order,
\* each a string, a leaf as its text
ShowsJson(ty, v, j) ==
  CASE ty.k = "List" ->
         /\ j.t = "arr"
         /\ Len(j.items) = Len(v)
         /\ \A i \in 1..Len(v) : ShowsJson(ty.ty, v[i], j.items[i])
    [] IsStructType(ty) ->
         LET members == TypeNamed(ty.name).members
         IN /\ j.t = "obj"
            /\ j.keys = [i \in 1..Len(members) |-> members[i].name]
            /\ \A i \in 1..Len(members) :
                 j.items[i].t = "str" /\ ShowsText(members[i].ty, v[i], j.items[i].s)
    [] OTHER -> j.t \in {"str", "num", "lit"} /\ j.s = v

\* the text shows the value v of the type; an Option shows null, or what it
\* holds
ShowsText(ty, v, text) ==
  IF ty.k = "List" \/ IsStructType(ty)
  THEN IsOk(from_str(text)) /\ ShowsJson(ty, v, from_str(text).val)
  ELSE IF ty.k = "Option"
  THEN IF v = << "n", "o", "n", "e" >> THEN text = << "n", "u", "l", "l" >>
       ELSE /\ starts_with(v, << "s", "o", "m", "e", ":" >>)
            /\ ShowsText(ty.ty, strip_prefix(v, << "s", "o", "m", "e", ":" >>), text)
  ELSE text = v

\* b is what is left of a after some of its first bytes
IsSuffix(b, a) == Len(b) <= Len(a) /\ b = SubSeq(a, Len(a) - Len(b) + 1, Len(a))

\* the payloads of the two values of a decode run
FirstWire == Wire(First.ty, First.v, custom_types)
SecondWire == Wire(Second.ty, Second.v, custom_types)

\* the kinds of type C11 is about
Sequential(ty) == IsPrimitive(ty) \/ ty.k = "List" \/ IsStructType(ty)

(***************************************************************************)
(* C11: from the payloads of two values, each of a primitive type, a List  *)
(* or a struct, written one after the other, decode of the first type      *)
(* returns the payload of the second value as the remainder, and decode of *)
(* the second type on that remainder recovers the second value and leaves  *)
(* nothing; and whatever the types and the buffer, a remainder that decode *)
(* returns is a suffix of the buffer it was given.                         *)
(***************************************************************************)
C11_SequentialDecoding ==
  /\ (/\ codec.pc \in {"first", "second"}
      /\ codec.cut = 0
      /\ Sequential(First.ty)
      /\ Sequential(Second.ty))
     => /\ IsOk(codec.results[1])
        /\ codec.results[1].val.rem = SecondWire
        /\ codec.pc = "second" =>
             /\ IsOk(codec.results[2])
             /\ codec.results[2].val.rem = << >>
             /\ ShowsText(Second.ty, Second.v, codec.results[2].val.text)
  /\ codec.pc \in {"first", "second"} =>
       /\ IsOk(codec.results[1]) => IsSuffix(codec.results[1].val.rem, codec.bytes)
       /\ (codec.pc = "second" /\ IsOk(codec.results[2])) =>
            IsSuffix(codec.results[2].val.rem, codec.results[1].val.rem)

(***************************************************************************)
(* The range of a primitive kind, written as the decimal texts of its      *)
(* bounds, and the canonical text of a value: true or false, a decimal     *)
(* number without a plus sign or a leading zero (and no -0), any text for  *)
(* a String.                                                               *)
(***************************************************************************)
MaxText(ty) ==
  CASE ty.k = "U8" -> << "2", "5", "5" >>
    [] ty.k = "U32" -> << "4", "2", "9", "4", "9", "6", "7", "2", "9", "5" >>
    [] ty.k = "U64" -> << "1", "8", "4", "4", "6", "7", "4", "4", "0", "7", "3", "7", "0", "9", "5", "5", "1", "6", "1", "5" >>
    [] ty.k = "I32" -> << "2", "1", "4", "7", "4", "8", "3", "6", "4", "7" >>
    [] ty.k = "I64" -> << "9", "2", "2", "3", "3", "7", "2", "0", "3", "6", "8", "5", "4", "7", "7", "5", "8", "0", "7" >>
    [] ty.k = "U128" ->
         << "3", "4", "0", "2", "8", "2", "3", "6", "6", "9", "2", "0", "9", "3", "8", "4", "6",
         "3", "4", "6", "3", "3", "7", "4", "6", "0", "7", "4", "3", "1", "7", "6", "8",
         "2", "1", "1", "4", "5", "5" >>
    [] ty.k = "U256" ->
         << "1", "1", "5", "7", "9", "2", "0", "8", "9", "2", "3", "7", "3", "1", "6", "1", "9",
         "5", "4", "2", "3", "5", "7", "0", "9", "8", "5", "0", "0", "8", "6", "8", "7",
         "9", "0", "7", "8", "5", "3", "2", "6", "9", "9", "8", "4", "6", "6", "5", "6",
         "4", "0", "5", "6", "4", "0", "3", "9", "4", "5", "7", "5", "8", "4", "0", "0",
         "7", "9", "1", "3", "1", "2", "9", "6", "3", "9", "9", "3", "5" >>
    [] ty.k = "U512" ->
         << "1", "3", "4", "0", "7", "8", "0", "7", "9", "2", "9", "9", "4", "2", "5", "9", "7",
         "0", "9", "9", "5", "7", "4", "0", "2", "4", "9", "9", "8", "2", "0", "5", "8",
         "4", "6", "1", "2", "7", "4", "7", "9", "3", "6", "5", "8", "2", "0", "5", "9",
         "2", "3", "9", "3", "3", "7", "7", "7", "2", "3", "5", "6", "1", "4", "4", "3",
         "7", "2", "1", "7", "6", "4", "0", "3", "0", "0", "7", "3", "5", "4", "6", "9",
         "7", "6", "8", "0", "1", "8", "7", "4", "2", "9", "8", "1", "6", "6", "9", "0",
         "3", "4", "2", "7", "6", "9", "0", "0", "3", "1", "8", "5", "8", "1", "8", "6",
         "4", "8", "6", "0", "5", "0", "8", "5", "3", "7", "5", "3", "8", "8", "2", "8",
         "1", "1", "9", "4", "6", "5", "6", "9", "9", "4", "6", "4", "3", "3", "6", "4",
         "9", "0", "0", "6", "0", "8", "4", "0", "9", "5" >>

\* the magnitude of the least value of a signed kind
MinText(ty) ==
  CASE ty.k = "I32" -> << "2", "1", "4", "7", "4", "8", "3", "6", "4", "8" >>
    [] ty.k = "I64" -> << "9", "2", "2", "3", "3", "7", "2", "0", "3", "6", "8", "5", "4", "7", "7", "5", "8", "0", "8" >>

\* a sequence of digits with no leading zero, 0 itself apart
IsDecimal(s) ==
  /\ s # << >>
  /\ \A i \in 1..Len(s) : IsDigit(s[i])
  /\ (s[1] = "0" => Len(s) = 1)

\* a <= b for two decimals
DecimalLeq(a, b) ==
  \/ Len(a) < Len(b)
  \/ /\ Len(a) = Len(b)
     /\ \A i \in 1..Len(a) :
          (\A j \in 1..(i - 1) : a[j] = b[j]) => CharCode(a[i]) <= CharCode(b[i])

CanonicalInRange(ty, s) ==
  CASE ty.k = "Bool" -> s \in { << "t", "r", "u", "e" >>, << "f", "a", "l", "s", "e" >> }
    [] ty.k = "String" -> TRUE
    [] ty.k \in {"U8", "U32", "U64", "U128", "U256", "U512"} ->
         IsDecimal(s) /\ DecimalLeq(s, MaxText(ty))
    [] ty.k \in {"I32", "I64"} ->
         IF s # << >> /\ s[1] = "-"
         THEN /\ IsDecimal(Tail(s))
              /\ Tail(s) # << "0" >>
              /\ DecimalLeq(Tail(s), MinText(ty))
         ELSE IsDecimal(s) /\ DecimalLeq(s, MaxText(ty))

(***************************************************************************)
(* C12: for every primitive kind and every value in its range, into_bytes  *)
(* accepts the canonical text of the value, and from_bytes applied to the  *)
(* encoding, followed by any further bytes, returns the same text and      *)
(* exactly the further bytes: an empty remainder when none is appended.    *)
(***************************************************************************)
C12_LeafRoundTrip ==
  (/\ codec.pc \in {"encoded", "rejected", "decoded"}
   /\ IsPrimitive(codec.ty)
   /\ CanonicalInRange(codec.ty, codec.input))
  => /\ codec.pc # "rejected"
     /\ codec.pc = "decoded" =>
          /\ IsOk(codec.decoded)
          /\ codec.decoded.val.text = codec.input
          /\ codec.decoded.val.rem = codec.extra

\* the least I32 has gone through both directions with nothing appended
C12_LeastI32RoundTrip ==
  /\ codec.pc = "decoded"
  /\ codec.ty = I32
  /\ codec.input = << "-", "2", "1", "4", "7", "4", "8", "3", "6", "4", "8" >>
  /\ codec.extra = << >>
  /\ codec.decoded = Ok(Decoded(codec.input, << >>))

(***************************************************************************)
(* C13: for a list of n >= 0 elements of any element type, the encoding is *)
(* the 4-byte count n followed by the n element encodings in order, and    *)
(* decode of those bytes, whatever follows them, succeeds, consumes        *)
(* exactly them and renders the bracketed list of the same n elements in   *)
(* the same order.                                                         *)
(***************************************************************************)
C13_ListRoundTrip ==
  (/\ codec.pc \in {"first", "second"}
   /\ codec.cut = 0
   /\ First.ty.k = "List")
  => /\ IsLeafKind(First.ty.ty) => vec_into_bytes(First.ty.ty, First.v) = Ok(FirstWire)
     /\ SubSeq(FirstWire, 1, 4) = U32Bytes(Len(First.v))
     /\ IsOk(codec.results[1])
     /\ codec.results[1].val.rem = SecondWire
     /\ ShowsText(First.ty, First.v, codec.results[1].val.text)

(***************************************************************************)
(* C14: decode of a struct reads the members in declared order from one    *)
(* buffer, each where the one before it ended, so that it consumes exactly *)
(* the payload of the struct, and it renders an object whose fields are    *)
(* the members in declared order, each value a string showing the member.  *)
(* The 50 bytes of the NameTokenMetadata payload are rendered as the       *)
(* expected object and consumed whole.                                     *)
(***************************************************************************)
C14_StructMembersInOrder ==
  /\ (/\ codec.pc \in {"first", "second"}
      /\ codec.cut = 0
      /\ IsStructType(First.ty))
     => /\ IsOk(codec.results[1])
        /\ codec.results[1].val.rem = SecondWire
        /\ ShowsText(First.ty, First.v, codec.results[1].val.text)
  /\ (/\ codec.pc \in {"first", "second"}
      /\ First.ty = Custom(s_NameTokenMetadata)
      /\ codec.bytes = NAMED_TOKEN_METADATA_BYTES)
     => codec.results[1] = Ok(Decoded(NAMED_TOKEN_METADATA_JSON, << >>))

\* decode of an enum from the bytes gave r: where a declared variant has the
\* discriminant in the first byte, r is the name of that variant, the only
\* one with that discriminant, and the bytes after the first
EnumDecoded(bytes, ty, r) ==
  LET variants == TypeNamed(ty.name).variants
  IN (bytes # << >> /\ \E i \in 1..Len(variants) : variants[i].discriminant = bytes[1])
     => /\ IsOk(r)
        /\ r.val.rem = Drop(bytes, 1)
        /\ \E i \in 1..Len(variants) :
             /\ variants[i].discriminant = bytes[1]
             /\ variants[i].name = r.val.text
             /\ \A j \in 1..Len(variants) : variants[j].discriminant = bytes[1] => j = i

(***************************************************************************)
(* C15: decode of an enum reads one byte, the discriminant, returns the    *)
(* name of the one declared variant with that discriminant, and returns    *)
(* as the remainder every byte after the discriminant: the payload of the  *)
(* variant is not consumed.                                                *)
(***************************************************************************)
C15_EnumReadsOneDiscriminant ==
  /\ (codec.pc \in {"first", "second"} /\ IsEnumType(First.ty))
     => EnumDecoded(codec.bytes, First.ty, codec.results[1])
  /\ (codec.pc = "second" /\ IsEnumType(Second.ty))
     => EnumDecoded(codec.results[1].val.rem, Second.ty, codec.results[2])

\* the variant Sealed was decoded and its payload, the byte 5, is left over
C15_PayloadLeftOver ==
  /\ codec.pc = "first"
  /\ First.ty = Custom(s_Kind)
  /\ First.v[1] = << "1" >>
  /\ IsOk(codec.results[1])
  /\ codec.results[1].val.text = s_Sealed
  /\ codec.results[1].val.rem = Drop(codec.bytes, 1)
  /\ codec.results[1].val.rem # << >>
  /\ Head(codec.results[1].val.rem) = 5

(***************************************************************************)
(* C16: when the discriminant read for an enum is that of no declared      *)
(* variant, decode returns an error value to its caller: it does not       *)
(* panic and it returns no variant name.                                   *)
(***************************************************************************)
C16_UnknownDiscriminantIsAnError ==
  (/\ codec.pc \in {"first", "second"}
   /\ IsEnumType(First.ty)
   /\ codec.bytes # << >>
   /\ \A i \in 1..Len(TypeNamed(First.ty.name).variants) :
        TypeNamed(First.ty.name).variants[i].discriminant # codec.bytes[1])
  => codec.results[1].tag = "Err"

(***************************************************************************)
(* C17: decode returns a result or an error value for every type and every *)
(* buffer, whole, truncated or empty: no call panics.                      *)
(***************************************************************************)
C17_DecodeNeverPanics ==
  \A i \in 1..Len(codec.results) : codec.results[i].tag # "Panic"

(***************************************************************************)
(* What compose was given for an argument, and what a complete payload of  *)
(* it is.                                                                  *)
(***************************************************************************)
\* the flags of the leaves of an argument
LeafFlags(arg) ==
  { i \in 1..Len(flags) :
      flags[i].name = arg.name \/ starts_with(flags[i].name, arg.name \o << "." >>) }

Supplied(arg) == \E i \in LeafFlags(arg) : matches[i] # << >>

\* the path of the node a leaf belongs to
ParentPath(name) ==
  LET segments == split(name, ".")
  IN join(SubSeq(segments, 1, Len(segments) - 1), << "." >>)

\* the fields of every list were given the same number of values
EqualColumns ==
  \A i, j \in 1..Len(flags) :
    (/\ flags[i].is_list_element
     /\ flags[j].is_list_element
     /\ ParentPath(flags[i].name) = ParentPath(flags[j].name))
    => Len(matches[i]) = Len(matches[j])

\* the first value of some leaf that compose encodes as it stands (any leaf
\* but the one of a list argument, whose strings are split first) is not a
\* text of the type of the leaf
UnencodableFirst ==
  \E i \in 1..Len(flags) :
    /\ matches[i] # << >>
    /\ Len(split(flags[i].name, ".")) > 1 \/ ~flags[i].is_list_element
    /\ ~IsOk(into_bytes(flags[i].ty, matches[i][1]))

\* everything supplied for the argument is in the payload stored under its name
Complete(arg) ==
  IF SingleLeaf(arg)
  THEN LET values == ValuesOf(arg.name)
           items == split(join(values, << "," >>), ",")
       IN IF arg.ty.k = "List"
          THEN Encodable(arg.ty.ty, items) /\ StoredUnder(arg.name, ListPayload(arg.ty.ty, items))
          ELSE Encodable(arg.ty, values) /\ StoredUnder(arg.name, into_bytes(arg.ty, values[1]).val)
  ELSE Regular(arg.ty, arg.name) /\ StoredUnder(arg.name, Payload(arg.ty, arg.name))

(***************************************************************************)
(* C18: compose has no partial success.  When a leaf value it encodes is   *)
(* not a text of its type, compose returns no runtime args, and, every     *)
(* flag having values and the columns of every list being of one length,   *)
(* it ends in an error value.  The runtime args it returns hold, for every *)
(* argument that was given values, the complete payload of the argument.   *)
(***************************************************************************)
C18_NoPartialSuccess ==
  /\ (pc \notin {"new", "ready"} /\ UnencodableFirst)
     => /\ pc # "done"
        /\ (/\ pc = "failed"
            /\ EqualColumns
            /\ \A i \in 1..Len(flags) : matches[i] # << >>)
           => outcome.tag = "Err"
  /\ pc = "done" =>
       \A a \in 1..Len(entry_point.arguments) :
         LET arg == entry_point.arguments[a]
         IN (Supplied(arg) /\ (SingleLeaf(arg) \/ IsStructType(arg.ty) \/ IsRecordList(arg.ty)))
            => Complete(arg)

(***************************************************************************)
(* The two shapes of the text of a byte array of n bytes.                  *)
(***************************************************************************)
\* 0x and then hex digits
IsHexText(s) ==
  /\ starts_with(s, << "0", "x" >>)
  /\ \A i \in 3..Len(s) : HexVal(s[i]) >= 0

\* decimal digits that say a number of 0..255
IsDecimalByte(s) ==
  /\ s # << >>
  /\ \A i \in 1..Len(s) : IsDigit(s[i])
  /\ LET zeros == IF \E i \in 1..Len(s) : s[i] # "0"
                  THEN (CHOOSE i \in 1..Len(s) : s[i] # "0" /\ \A j \in 1..(i - 1) : s[j] = "0") - 1
                  ELSE Len(s) - 1
     IN DecimalLeq(SubSeq(s, zeros + 1, Len(s)), << "2", "5", "5" >>)

\* the number a decimal byte says
DecimalByte(s) ==
  LET d == [i \in 1..Len(s) |-> DigitVal(s[i])]
  IN IF Len(s) = 1 THEN d[1]
     ELSE IF Len(s) = 2 THEN 10 * d[1] + d[2]
     ELSE 100 * d[Len(s) - 2] + 10 * d[Len(s) - 1] + d[Len(s)]

(***************************************************************************)
(* C19: into_bytes for ByteArray(n) accepts a text of 0x and exactly 2n    *)
(* hex digits, and a text of exactly n decimal bytes separated by commas,  *)
(* and gives the n bytes they say with nothing before them; it accepts no  *)
(* other text, and it rejects with a Formatting error a hex text of        *)
(* another number of digits, an odd number included, and a list of another *)
(* number of items.                                                        *)
(***************************************************************************)
C19_ByteArrayTwoShapes ==
  (codec.pc \in {"encoded", "rejected", "decoded"} /\ codec.ty.k = "ByteArray") =>
    LET n == codec.ty.n
        s == codec.input
        items == split(s, ",")
    IN IF IsHexText(s) /\ Len(s) - 2 = 2 * n
       THEN codec.encoded = Ok([i \in 1..n |-> 16 * HexVal(s[2 * i + 1]) + HexVal(s[2 * i + 2])])
       ELSE IF ~starts_with(s, << "0", "x" >>)
               /\ Len(items) = n
               /\ \A i \in 1..n : IsDecimalByte(items[i])
       THEN codec.encoded = Ok([i \in 1..n |-> DecimalByte(items[i])])
       ELSE /\ codec.encoded.tag = "Err"
            /\ (IsHexText(s) /\ Len(s) - 2 # 2 * n) => codec.encoded = Err("Formatting")
            /\ (~starts_with(s, << "0", "x" >>) /\ Len(items) # n)
                 => codec.encoded = Err("Formatting")

\* the error, if any, of the slots of a text encoded one by one: that of the
\* first slot that is not a text of its type
SlotError(tys, slots) ==
  IF \E i \in 1..Len(tys) : ~IsOk(into_bytes(tys[i], slots[i]))
  THEN << into_bytes(tys[CHOOSE i \in 1..Len(tys) :
                           /\ ~IsOk(into_bytes(tys[i], slots[i]))
                           /\ \A h \in 1..(i - 1) : IsOk(into_bytes(tys[h], slots[h]))],
                     slots[CHOOSE i \in 1..Len(tys) :
                             /\ ~IsOk(into_bytes(tys[i], slots[i]))
                             /\ \A h \in 1..(i - 1) : IsOk(into_bytes(tys[h], slots[h]))]) >>
  ELSE << >>

(***************************************************************************)
(* C20: into_bytes returns an error and no bytes when the text has not the *)
(* shape of the type: the Formatting error for an Option text that is      *)
(* neither none nor some:<inner>, for a Result text that starts with       *)
(* neither ok: nor err:, and for a Tuple2 or Tuple3 text that has not 2 or *)
(* 3 slots between commas, an error for a Tuple1 text that has not one     *)
(* slot; and the error of a slot, or of the inner text, is the error of    *)
(* the whole.                                                              *)
(***************************************************************************)
C20_ShapeErrors ==
  codec.pc \in {"encoded", "rejected", "decoded"} =>
    LET ty == codec.ty
        s == codec.input
        slots == split(s, ",")
        some == << "s", "o", "m", "e", ":" >>
        ok == << "o", "k", ":" >>
        err == << "e", "r", "r", ":" >>
    IN /\ ty.k = "Option" =>
            IF s = << "n", "o", "n", "e" >> THEN IsOk(codec.encoded)
            ELSE IF starts_with(s, some)
            THEN ~IsOk(into_bytes(ty.ty, strip_prefix(s, some)))
                   => codec.encoded = into_bytes(ty.ty, strip_prefix(s, some))
            ELSE codec.encoded = Err("Formatting")
       /\ ty.k = "Result" =>
            IF starts_with(s, err)
            THEN ~IsOk(into_bytes(ty.err, strip_prefix(s, err)))
                   => codec.encoded = into_bytes(ty.err, strip_prefix(s, err))
            ELSE IF starts_with(s, ok)
            THEN ~IsOk(into_bytes(ty.ok, strip_prefix(s, ok)))
                   => codec.encoded = into_bytes(ty.ok, strip_prefix(s, ok))
            ELSE codec.encoded = Err("Formatting")
       /\ ty.k \in {"Tuple2", "Tuple3"} =>
            IF Len(slots) # Len(ty.tys) THEN codec.encoded = Err("Formatting")
            ELSE SlotError(ty.tys, slots) # << >> => codec.encoded = SlotError(ty.tys, slots)[1]
       /\ ty.k = "Tuple1" =>
            IF Len(slots) # 1 THEN codec.encoded.tag = "Err"
            ELSE SlotError(ty.tys, slots) # << >> => codec.encoded = SlotError(ty.tys, slots)[1]

(***************************************************************************)
(* C21: the type registry is not changed once flags have been flattened    *)
(* against it: no step of a registration that follows, and no step of      *)
(* flatten or compose, changes it, so that an entry point is composed      *)
(* against the set of definitions its flags were flattened against.        *)
(***************************************************************************)
C21_RegistryFixedOnceFlattened ==
  [][commands # << >> => custom_types' = custom_types]_vars

(***************************************************************************)
(* C22: every call of flat_arg and of decode ends, returning or failing,   *)
(* for every registry and every type, registries in which a struct refers  *)
(* to itself included.                                                     *)
(***************************************************************************)
C22_EveryCallEnds == <>(codec.pc \in {"returned", "failed"})

(***************************************************************************)
(* C23: when DeployedContractsContainer::new() finds a readable file of    *)
(* deployed contracts, it leaves a file named after the previous time that *)
(* holds the previous contents, and no file at the original path.          *)
(***************************************************************************)
C23_PreviousVersionMoved ==
  [][(new /\ IsOk(load(codec.files))) =>
       /\ previous_path(load(codec.files).val.time) \in DOMAIN codec.files'
       /\ codec.files'[previous_path(load(codec.files).val.time)] = load(codec.files).val
       /\ file_path \notin DOMAIN codec.files']_vars

(***************************************************************************)
(* C24: the columns of a group that is flushed hold the same number of     *)
(* values.  No flush writes a payload from a group whose columns differ,   *)
(* dropping the surplus of a longer column, and none indexes past the end  *)
(* of a shorter one: such a group is at most refused with an error value.  *)
(***************************************************************************)
ColumnsOfOneLength ==
  \A c \in 1..Len(current_group.values) :
    Len(current_group.values[c][2]) = Len(current_group.values[1][2])

C24_FlushedColumnsEqual ==
  [][Flush => (ColumnsOfOneLength \/ (pc' = "failed" /\ outcome'.tag = "Err"))]_vars

(***************************************************************************)
(* The payload build_complex_arg is to write for the leaves in parts.  A   *)
(* unit is a leaf that is no list element, or a run of consecutive list    *)
(* elements with one parent segment: the columns of one group.             *)
(***************************************************************************)
PartValues(c) == get_many(flags, matches, parts[c].name).val
PartParent(c) == split(parts[c].name, ".")[Len(split(parts[c].name, ".")) - 1]

\* leaf c continues the group of the leaf before it
SameUnit(c) ==
  /\ c > 1
  /\ parts[c].is_list_element
  /\ parts[c - 1].is_list_element
  /\ PartParent(c) = PartParent(c - 1)

\* the last leaf of the unit that starts at leaf c
RECURSIVE UnitEnd(_)
UnitEnd(c) == IF c < Len(parts) /\ SameUnit(c + 1) THEN UnitEnd(c + 1) ELSE c

\* the bytes of the unit of the leaves c..d: the single value as it is
\* encoded, or the count of the first column and then, record by record, one
\* value of every column
UnitBytes(c, d) ==
  IF ~parts[c].is_list_element THEN into_bytes(parts[c].ty, PartValues(c)[1]).val
  ELSE LET size == Len(PartValues(c))
       IN U32Bytes(size) \o
          concat([n \in 1..(size * (d - c + 1)) |->
                    LET row == ((n - 1) \div (d - c + 1)) + 1
                        leaf == c + ((n - 1) % (d - c + 1))
                    IN into_bytes(parts[leaf].ty, PartValues(leaf)[row]).val])

RECURSIVE PayloadFrom(_)
PayloadFrom(c) ==
  IF c > Len(parts) THEN << >>
  ELSE UnitBytes(c, UnitEnd(c)) \o PayloadFrom(UnitEnd(c) + 1)

(***************************************************************************)
(* C25: the payload of a composite argument keeps the order of the leaves. *)
(* When the last flush is done, the buffer is, unit after unit in the      *)
(* order of the leaves, the bytes of every unit: a leaf that is no list    *)
(* element as the encoding of its single value with no count before it, a  *)
(* group as its count and its records; and no column is left in the group. *)
(***************************************************************************)
C25_PayloadInLeafOrder ==
  pc = "finish" => (buffer = PayloadFrom(1) /\ current_group.values = << >>)

\* a payload was finished that holds a leaf, then a group of two columns,
\* then another leaf
C25_LeafGroupLeaf ==
  /\ pc = "finish"
  /\ Len(parts) = 5
  /\ ~parts[2].is_list_element
  /\ parts[3].is_list_element /\ SameUnit(4)
  /\ ~parts[5].is_list_element
  /\ Len(PartValues(3)) = 2

(***************************************************************************)
(* The List node of the schema that a leaf is an element of.               *)
(***************************************************************************)
RECURSIVE ListNodes(_, _, _)
\* the leaves under a type at a path, each with the path of the List it is
\* an element of (the empty path for a leaf outside every List)
ListNodes(ty, path, node) ==
  IF ty.k = "List" THEN ListNodes(ty.ty, path, path)
  ELSE IF IsStructType(ty)
  THEN UNION { ListNodes(TypeNamed(ty.name).members[i].ty,
                         Dotted(path, TypeNamed(ty.name).members[i].name), node) :
                 i \in 1..Len(TypeNamed(ty.name).members) }
  ELSE IF IsEnumType(ty)
  THEN UNION { ListNodes(TypeNamed(ty.name).variants[i].ty,
                         Dotted(path, to_lowercase(TypeNamed(ty.name).variants[i].name)), node) :
                 i \in 1..Len(TypeNamed(ty.name).variants) }
  ELSE { << path, node >> }

\* the List node of the leaf c of the argument at hand
NodeOf(c) ==
  LET nodes == ListNodes(CurrentArg.ty, CurrentArg.name, << >>)
  IN (CHOOSE p \in nodes : p[1] = parts[c].name)[2]

\* build_complex_arg is at work on an argument
Building ==
  pc \in {"complex", "flush_start_group", "flush_append_leaf", "flush_finish",
          "start_group", "append_leaf"}

\* the leaves whose columns are in the current group: the last ones before
\* the leaf at hand
GroupLeaves == (leaf_idx - Len(current_group.values))..(leaf_idx - 1)

(***************************************************************************)
(* C26: the leaves of two different List nodes of the schema are never in  *)
(* the same group: two lists side by side in a struct (s.xs, s.ys), or     *)
(* under members of one name (s.a.items.f, s.b.items.f), are written as    *)
(* lists of their own.                                                     *)
(***************************************************************************)
C26_OneListPerGroup ==
  Building => \A c, d \in GroupLeaves : NodeOf(c) = NodeOf(d)

(***************************************************************************)
(* C27: all the leaves of one List node are flushed as one group under one *)
(* count, also when the struct of the elements has a member that is a      *)
(* struct (s.items.label, s.items.owner.id): a group that is flushed holds *)
(* every leaf of its List.                                                 *)
(***************************************************************************)
C27_OneGroupPerList ==
  (pc \in {"flush_start_group", "flush_append_leaf", "flush_finish"} /\ current_group.values # << >>)
    => \A c \in 1..Len(parts) :
         (\E d \in GroupLeaves : NodeOf(c) = NodeOf(d)) => c \in GroupLeaves

(***************************************************************************)
(* C28: an argument whose type is a struct with a single member of a       *)
(* primitive type has one leaf, arg.member.  Given one encodable value for *)
(* that flag, compose does not fail on the argument, and the runtime args  *)
(* hold under the argument's name the value encoded with the type of the   *)
(* member.                                                                 *)
(***************************************************************************)
C28_SingleMemberStruct ==
  \A a \in 1..Len(entry_point.arguments) :
    LET arg == entry_point.arguments[a]
        member == TypeNamed(arg.ty.name).members[1]
        values == ValuesOf(Dotted(arg.name, member.name))
    IN (/\ pc \notin {"new", "ready"}
        /\ IsRecord(arg.ty)
        /\ Len(TypeNamed(arg.ty.name).members) = 1
        /\ Len(values) = 1
        /\ IsOk(into_bytes(member.ty, values[1])))
       => /\ (a = arg_idx => pc # "failed")
          /\ Composed(a) => StoredUnder(arg.name, into_bytes(member.ty, values[1]).val)

(***************************************************************************)
(* C29: decode succeeds on every well-formed payload of a struct, whatever *)
(* its members hold: a member that is a struct or a List, a String with a  *)
(* double quote or a backslash.  It returns the rendered object and has    *)
(* consumed the payload, all of it and no more.                            *)
(***************************************************************************)
C29_StructPayloadDecodes ==
  (/\ codec.pc \in {"first", "second"}
   /\ codec.cut = 0
   /\ IsStructType(First.ty))
  => /\ IsOk(codec.results[1])
     /\ codec.results[1].val.rem = SecondWire
     /\ Head(codec.results[1].val.text) = "{"

=============================================================================
